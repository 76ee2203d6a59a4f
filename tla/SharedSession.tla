--------------------------- MODULE SharedSession ---------------------------
(* What a daemon asks of the user and shows to him: the restore token that    *)
(* spares the consent dialog (start_session, TokenStore, forget_session), and *)
(* the two child processes that show that the screen is shared.  One          *)
(* application starts, ends and forgets sessions in turn.                     *)
CONSTANTS
    Tokens,     \* restore tokens
    Outputs,    \* displays
    None,       \* no token; no particular display
    Gone        \* no child process

ASSUME TokensAssumption == None \notin Tokens
ASSUME OutputsAssumption == Gone \notin Outputs /\ Gone # None

VARIABLES
    saved,      \* restore-token.json; None also when there is no file
    valid,      \* the tokens the portal would accept
    app,        \* what the application does besides
    pc,         \* where the daemon is
    first,      \* this is the first try_start_session
    persist,    \* with_persistence
    offer,      \* the token it offers
    token,      \* the token it got
    portal,     \* its portal session
    border,     \* the display the session overlay is on
    spare,      \* its replacement
    output,     \* SessionOverlayProcess::output
    teach,      \* the teach controller runs
    forgotten,  \* history: forgotten, and the user not asked since
    remembered, \* history: the user agreed to be remembered, and it still holds
    died        \* history: the session overlay ended by itself

grant   == <<first, persist, offer, token>>
shown   == <<border, spare, output, teach, died>>
history == <<forgotten, remembered>>
vars    == <<saved, valid, app, pc, grant, portal, shown, history>>

Trying   == {"create", "select", "dialog", "started"}
Opening  == Trying \cup {"save"}
Teardown == {"endteach", "endborder", "endportal"}
Displays == Outputs \cup {None}

Types ==
    /\ saved \in Tokens \cup {None} /\ valid \in SUBSET Tokens
    /\ app \in {"idle", "forgetting"}
    /\ pc \in {"off", "border", "teach", "serving", "switching"} \cup Opening \cup Teardown
    /\ first \in BOOLEAN /\ persist \in BOOLEAN
    /\ offer \in Tokens \cup {None} /\ token \in Tokens \cup {None}
    /\ portal \in {"none", "half", "open", "closed"}
    /\ border \in Displays \cup {Gone} /\ spare \in Displays \cup {Gone}
    /\ output \in Displays
    /\ teach \in BOOLEAN /\ died \in BOOLEAN
    /\ forgotten \in BOOLEAN /\ remembered \in BOOLEAN

\* What there is of a portal session and of children, at each stage.
Stages ==
    /\ portal = "none" <=> pc \in {"off", "create"}
    /\ portal = "half" <=> pc \in {"select", "dialog"}
    /\ pc \in {"off", "border", "endportal"} \cup Opening => border = Gone
    /\ spare = Gone <=> pc # "switching"
    /\ teach <=> pc \in {"serving", "switching", "endteach"}

TypeOK == Types /\ Stages

Init ==
    /\ saved = None /\ valid = {} /\ app = "idle"
    /\ pc = "off" /\ first = TRUE /\ persist = FALSE /\ offer = None /\ token = None
    /\ portal = "none"
    /\ border = Gone /\ spare = Gone /\ output = None /\ teach = FALSE /\ died = FALSE
    /\ forgotten = FALSE /\ remembered = FALSE

-----------------------------------------------------------------------------
(* Opening a portal session. *)

\* The token is taken if the file can be read (start_session).
Open ==
    /\ pc = "off" /\ app = "idle"
    /\ pc' = "create" /\ first' = TRUE
    /\ offer' \in {saved, None} /\ persist' = FALSE /\ token' = None
    /\ UNCHANGED <<saved, valid, app, portal, shown, history>>

\* Version 1 of the portal has no persistence.
Create ==
    /\ pc = "create" /\ pc' = "select"
    /\ portal' = "half"
    /\ persist' \in {first, FALSE}
    /\ UNCHANGED <<saved, valid, app, first, offer, token, shown, history>>

\* A token is good for one Start.
Offered == IF persist THEN {offer} ELSE {}

Fresh == Tokens \ (valid \cup {saved, offer})

\* Start, with a token the portal accepts: nobody is asked, and a new one issued.
Restored ==
    /\ pc = "select" /\ pc' = "started"
    /\ Offered \cap valid # {}
    /\ \E t \in Fresh : token' = t /\ valid' = (valid \ Offered) \cup {t}
    /\ portal' = "open"
    /\ UNCHANGED <<saved, app, first, persist, offer, shown, history>>

Asks ==
    /\ pc = "select" /\ pc' = "dialog"
    /\ valid' = valid \ Offered
    /\ UNCHANGED <<saved, app, grant, portal, shown, history>>

\* The user agrees, and may agree to be remembered if that was asked for.
Consent ==
    /\ pc = "dialog" /\ pc' = "started"
    /\ \/ \E t \in Fresh : persist /\ token' = t /\ valid' = valid \cup {t} /\ remembered' = TRUE
       \/ token' = None /\ valid' = valid /\ remembered' = (remembered /\ ~persist)
    /\ portal' = "open" /\ forgotten' = FALSE
    /\ UNCHANGED <<saved, app, first, persist, offer, shown>>

\* The old token may be spent, and the new one is not in the file.
Spent == persist /\ pc \in {"dialog", "started", "save"}

\* A refusal of persistence is answered with a second try without it.
Retry ==
    /\ first /\ pc' = "create" /\ first' = FALSE /\ offer' = None

\* Any step may fail, with any error; the half-built session is closed.
TryFails ==
    /\ pc \in Trying
    /\ \/ Retry
       \/ pc' = "off" /\ UNCHANGED <<first, offer>>
    /\ portal' = "none" /\ token' = None
    /\ remembered' = (remembered /\ ~Spent)
    /\ UNCHANGED <<saved, valid, app, persist, shown, forgotten>>

\* There are streams, and a PipeWire connection.
Started ==
    /\ pc = "started" /\ pc' = "save"
    /\ UNCHANGED <<saved, valid, app, grant, portal, shown, history>>

\* Slip: what was returned is saved, be it nothing.
SaveAll ==
    /\ pc = "save" /\ pc' = "border"
    /\ saved' = token
    /\ UNCHANGED <<valid, app, grant, portal, shown, history>>

\* A token that was issued replaces the file, or that fails and is ignored.
Save ==
    /\ pc = "save" /\ pc' = "border"
    /\ \/ token # None /\ saved' = token /\ UNCHANGED remembered
       \/ token # None /\ UNCHANGED saved /\ remembered' = FALSE
       \/ token = None /\ UNCHANGED <<saved, remembered>>
    /\ UNCHANGED <<valid, app, grant, portal, shown, forgotten>>

-----------------------------------------------------------------------------
(* The indicators. *)

BorderUp ==
    /\ pc = "border" /\ pc' = "teach"
    /\ border' = None /\ output' = None /\ died' = FALSE
    /\ UNCHANGED <<saved, valid, app, grant, portal, spare, teach, history>>

TeachUp ==
    /\ pc = "teach" /\ pc' = "serving"
    /\ teach' = TRUE
    /\ UNCHANGED <<saved, valid, app, grant, portal, border, spare, output, died, history>>

\* Slip: the overlay that came up is forgotten.
IndicatorLeft ==
    /\ pc \in {"border", "teach"} /\ pc' = "off"
    /\ portal' = "none"
    /\ UNCHANGED <<saved, valid, app, grant, shown, history>>

\* One of them does not come up: the session is shut down again.
IndicatorFails ==
    /\ pc \in {"border", "teach"} /\ pc' = "off"
    /\ border' = Gone /\ portal' = "none"
    /\ UNCHANGED <<saved, valid, app, grant, spare, output, teach, died, history>>

\* Slip: the old overlay goes before the new one is there.
ReplaceFirst(o) ==
    /\ pc = "serving" /\ o # output
    /\ border' = Gone
    /\ \/ pc' = "switching" /\ spare' = o
       \/ UNCHANGED <<pc, spare>>
    /\ UNCHANGED <<saved, valid, app, grant, portal, output, teach, died, history>>

\* set_output: the display it has needs no work, and a spawn that fails changes
\* nothing.
Replace(o) ==
    /\ pc = "serving" /\ o # output
    /\ pc' = "switching" /\ spare' = o
    /\ UNCHANGED <<saved, valid, app, grant, portal, border, output, teach, died, history>>

Switch ==
    /\ pc = "switching" /\ pc' = "serving"
    /\ border' = spare /\ output' = spare /\ spare' = Gone /\ died' = FALSE
    /\ UNCHANGED <<saved, valid, app, grant, portal, teach, history>>

\* The overlay loses its compositor, say; nobody looks after it.
BorderDies ==
    /\ border # Gone
    /\ border' = Gone /\ died' = TRUE
    /\ UNCHANGED <<saved, valid, app, pc, grant, portal, spare, output, teach, history>>

-----------------------------------------------------------------------------
(* The end of a session. *)

UserStop ==
    /\ portal = "open" /\ portal' = "closed"
    /\ UNCHANGED <<saved, valid, app, pc, grant, shown, history>>

\* The portal's Closed, SIGTERM or Shutdown.
Ends ==
    /\ pc = "serving" /\ pc' = "endteach"
    /\ UNCHANGED <<saved, valid, app, grant, portal, shown, history>>

TeachDown ==
    /\ pc = "endteach" /\ pc' = "endborder"
    /\ teach' = FALSE
    /\ UNCHANGED <<saved, valid, app, grant, portal, border, spare, output, died, history>>

BorderDown ==
    /\ pc = "endborder" /\ pc' = "endportal"
    /\ border' = Gone
    /\ UNCHANGED <<saved, valid, app, grant, portal, spare, output, teach, died, history>>

PortalDown ==
    /\ pc = "endportal" /\ pc' = "off"
    /\ portal' = "none"
    /\ UNCHANGED <<saved, valid, app, grant, shown, history>>

\* SIGTERM before it serves, the watchdog, SIGKILL: its children get a SIGTERM
\* (PR_SET_PDEATHSIG), and the portal sees the connection close.
Killed ==
    /\ pc # "off" /\ pc' = "off"
    /\ border' = Gone /\ spare' = Gone /\ teach' = FALSE /\ portal' = "none"
    /\ remembered' = (remembered /\ ~Spent)
    /\ UNCHANGED <<saved, valid, app, grant, output, died, forgotten>>

-----------------------------------------------------------------------------
(* forget-session, and the user's settings. *)

Forget ==
    /\ app = "idle" /\ app' = "forgetting"
    /\ UNCHANGED <<saved, valid, pc, grant, portal, shown, history>>

\* Slip: the token goes before the daemon.
ForgetFirst ==
    /\ app = "forgetting" /\ app' = "idle"
    /\ saved' = None /\ forgotten' = TRUE /\ remembered' = FALSE
    /\ UNCHANGED <<valid, pc, grant, portal, shown>>

\* stop_session_daemon has seen to it that there is no daemon.
Forgotten ==
    /\ app = "forgetting" /\ app' = "idle" /\ pc = "off"
    /\ \/ saved' = None /\ forgotten' = TRUE /\ remembered' = FALSE
       \/ UNCHANGED <<saved, history>>
    /\ UNCHANGED <<valid, pc, grant, portal, shown>>

Revoke ==
    /\ valid # {} /\ valid' = {}
    /\ remembered' = FALSE
    /\ UNCHANGED <<saved, app, pc, grant, portal, shown, forgotten>>

-----------------------------------------------------------------------------
(* The specification. *)

Next ==
    \/ Open \/ Create \/ Restored \/ Asks \/ Consent \/ TryFails \/ Started \/ Save
    \/ BorderUp \/ TeachUp \/ IndicatorFails \/ Switch \/ BorderDies
    \/ \E o \in Displays : Replace(o)
    \/ UserStop \/ Ends \/ TeachDown \/ BorderDown \/ PortalDown \/ Killed
    \/ Forget \/ Forgotten \/ Revoke

Spec == Init /\ [][Next]_vars

-----------------------------------------------------------------------------
(* Properties. *)

\* "Without this, session-end + session-start silently replays the stored grant,
\* so the consent dialog never shows again" (forget_session): after it, no
\* session is open until the user has been asked.
ForgetMeansDialog == forgotten => portal \notin {"open", "closed"}

\* A user who agreed to be remembered is not asked again: whatever sessions came
\* since, with tokens replaced, refused or not asked for, the file holds one the
\* portal accepts, unless he revoked it, a save failed, or a start failed
\* between the two tokens (start_session).
SilentNextTime == remembered /\ pc \notin Opening => saved \in valid

\* "The consent indicator would stay gone for the rest of the session"
\* (set_output): while the session is served there is an overlay, on the display
\* the daemon believes it on, unless it ended by itself.
IndicatorFits == pc = "serving" /\ ~died => border = output

-----------------------------------------------------------------------------
(* Why these hold. *)

\* Nothing is left to start a session with that the user is not asked for.
NothingToOffer ==
    forgotten => saved = None /\ pc \in {"off", "create", "select", "dialog"}
                 /\ (pc # "off" => offer = None)

\* The good token is in the file, or on its way there.
TokenOnTheWay ==
    remembered =>
        /\ pc \notin {"dialog", "started", "save"} => saved \in valid
        /\ pc \in {"dialog", "started", "save"} /\ ~persist => saved \in valid
        /\ pc \in {"started", "save"} => IF persist THEN token \in valid ELSE token = None

BorderFits ==
    ~died => /\ pc = "teach" => border = None /\ output = None
             /\ pc \in {"serving", "switching"} => border = output

Inductive == NothingToOffer /\ TokenOnTheWay /\ BorderFits

=============================================================================
