---------------------------- MODULE Applications ----------------------------
(* Which application a window belongs to.  AliasIndex is made of the desktop  *)
(* files, one after the other (build_alias_index); allow lists hold the       *)
(* bundle ids it gives them, and a window only reports some name or other, of *)
(* its own or of the window it is transient for (bundle_id_from_parts).  A    *)
(* name is what normalize_alias_key makes of it: lowercased, trimmed, without *)
(* ".desktop"; suffix says whether it came with that.                         *)
EXTENDS Naturals, Sequences

CONSTANTS
    Names,      \* normalised names
    None,       \* no such key in a desktop file, no such name of a window
    Windows,    \* of each window: its own report, its parent's, and so on
    MaxFiles    \* bound: how many desktop files are walked

ASSUME NoneAssumption == None \notin Names \cup [name : Names, suffix : BOOLEAN]

VARIABLES
    entries,    \* the index: the desktop files it lists, in order
    aliases,    \* the index: the bundle id each name stands for
    walked      \* how many files have been looked at

indexVars == <<entries, aliases, walked>>

Raw      == [name : Names, suffix : BOOLEAN]
Plain(n) == [name |-> n, suffix |-> FALSE]

\* What a desktop file says: its own name, StartupWMClass, the names it has
\* besides (its id, the program of its Exec line), and whether this desktop
\* shows it.
Files == [stem : Names, class : Raw \cup {None}, others : SUBSET Names, shown : BOOLEAN]

\* A report has KWin's desktop_file_name, resource_class, resource_name and id
\* in this order, None for a blank one.
ASSUME WindowsAssumption ==
    \A w \in Windows : Len(w) \in Nat /\ DOMAIN w = 1 .. Len(w) /\ \A i \in DOMAIN w :
        /\ w[i].transient \in BOOLEAN
        /\ \A k \in DOMAIN w[i].reports : w[i].reports[k] \in Raw \cup {None}

\* StartupWMClass lowercased, its suffix kept; or the file's name.
BundleId(f) == IF f.class # None THEN f.class ELSE Plain(f.stem)

Aliases(f) ==
    {f.stem} \cup f.others \cup {n \in Names : f.class # None /\ n = f.class.name}

IndexTypeOK ==
    /\ entries \in Seq(Files)
    /\ aliases \in UNION {[S -> Raw] : S \in SUBSET Names}
    /\ walked \in Nat

IndexInit == entries = <<>> /\ aliases = [n \in {} |-> Plain(n)] /\ walked = 0

-----------------------------------------------------------------------------
(* build_alias_index *)

\* Slip: the last one gets it.
ClaimLast(f) ==
    aliases' = [n \in DOMAIN aliases \cup Aliases(f) |->
                    IF n \in Aliases(f) THEN BundleId(f) ELSE aliases[n]]

\* The first entry that claims a name keeps it.
Claim(f) ==
    aliases' = [n \in DOMAIN aliases \cup Aliases(f) |->
                    IF n \in DOMAIN aliases THEN aliases[n] ELSE BundleId(f)]

Seen(f) == \E i \in DOMAIN entries : BundleId(entries[i]) = BundleId(f)

List(f) ==
    /\ walked < MaxFiles /\ walked' = walked + 1
    /\ f.shown /\ ~Seen(f)
    /\ Claim(f)
    /\ entries' = Append(entries, f)

\* Slip: a file that is not listed claims its names all the same.
SkipClaiming(f) ==
    /\ walked < MaxFiles /\ walked' = walked + 1
    /\ ~f.shown \/ Seen(f)
    /\ Claim(f)
    /\ UNCHANGED entries

Skip(f) ==
    /\ walked < MaxFiles /\ walked' = walked + 1
    /\ ~f.shown \/ Seen(f)
    /\ UNCHANGED <<entries, aliases>>

\* Each process builds the index it uses, once (alias_index).
Rebuild ==
    /\ walked > 0 /\ walked' = 0
    /\ entries' = <<>> /\ aliases' = [n \in {} |-> Plain(n)]

IndexNext == Rebuild \/ \E f \in Files : List(f) \/ Skip(f)

IndexSpec == IndexInit /\ [][IndexNext]_indexVars

-----------------------------------------------------------------------------
(* What a window is taken for. *)

Canonical(r) == IF r.name \in DOMAIN aliases THEN aliases[r.name] ELSE Plain(r.name)

Given(part) == {k \in DOMAIN part.reports : part.reports[k] # None}
Report(part) == part.reports[CHOOSE k \in Given(part) : \A l \in Given(part) : k <= l]

\* The parts of a window that speak for it: of those that are reached from
\* transient to parent, the farthest that has a name.
Speaks(w) ==
    LET Named == {i \in DOMAIN w : Given(w[i]) # {} /\ \A j \in 1 .. i - 1 : w[j].transient}
    IN  {i \in Named : \A j \in Named : j <= i}

Reported(w)  == {Report(w[i]) : i \in Speaks(w)}
BundlesOf(w) == {Canonical(r) : r \in Reported(w)}

\* is_window_allowed, is_host_window: bundle ids are compared as they are.
Allowed(w, ids) == \E b \in BundlesOf(w) : b \in ids

-----------------------------------------------------------------------------
\* An entry before this one has a name of its own in common with it.
Shadowed(i) == \E j \in 1 .. i - 1 : Aliases(entries[j]) \cap Aliases(entries[i]) # {}

\* Where the way from a dialog to the window it belongs to ends.
Roots(w) == {i \in DOMAIN w :
    (\A j \in 1 .. i - 1 : w[j].transient) /\ (i = Len(w) \/ ~w[i].transient)}

(* An allow list that names an installed application, by the bundle id that   *)
(* list-installed-apps gives, admits the windows of that application and no   *)
(* others: whichever of its names they report, with ".desktop" or without,    *)
(* and their dialogs with them (is_window_allowed).  Unless an entry listed   *)
(* before shares a name with it: that one then takes windows from it.         *)
AllowListIsExact == \A i \in DOMAIN entries : ~Shadowed(i) =>
    \A w \in Windows : \A k \in Roots(w) : Given(w[k]) # {} =>
        (Allowed(w, {BundleId(entries[i])}) <=> Report(w[k]).name \in Aliases(entries[i]))

(* A window whose name the index knows is taken for an application that can   *)
(* be opened under that bundle id (resolve_entry), and no two can be: an      *)
(* entry that is hidden, or that repeats a bundle id, lends its names to none.*)
KnownCanBeOpened ==
    /\ \A n \in DOMAIN aliases :
        \E i \in DOMAIN entries : aliases[n] = BundleId(entries[i]) /\ n \in Aliases(entries[i])
    /\ \A i, j \in DOMAIN entries : BundleId(entries[i]) = BundleId(entries[j]) => i = j
=============================================================================
