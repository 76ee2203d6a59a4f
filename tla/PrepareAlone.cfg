CONSTANTS
    p1 = p1
    app = app
    osd = osd
    other = other
    afar = afar
    overlay = overlay
    Procs = {p1}
    Teardowns = {}
    Windows = {app, osd, other, afar, overlay}
    Overlays = {overlay}
    Allowed = {app, osd}
    Host = {}
    Shells = {}
    Surfaces = {osd}
    Elsewhere = {afar}
SPECIFICATION SpecOnScreen
INVARIANTS OursOnly ClickMeetsShot
PROPERTY PromiseKept
