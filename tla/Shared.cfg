CONSTANTS
    Tokens = {t1, t2, t3, t4}
    Outputs = {left, right}
    None = None
    Gone = Gone
SPECIFICATION Spec
INVARIANTS ForgetMeansDialog SilentNextTime IndicatorFits
