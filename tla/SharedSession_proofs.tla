------------------------ MODULE SharedSession_proofs ------------------------
(* Theorems about SharedSession, for any tokens and displays.                 *)
EXTENDS SharedSession, TLAPS

USE TokensAssumption, OutputsAssumption

LEMMA TypesStep ==
    ASSUME TypeOK
    PROVE  [Next]_vars => Types'
<1>0. SUFFICES ASSUME [Next]_vars
               PROVE  Types'
    OBVIOUS
<1> USE DEF TypeOK, Types, Stages, Trying, Opening, Teardown, Displays, grant, shown, history
<1>1. CASE Open
    BY <1>1 DEF Open
<1>2. CASE Create
    BY <1>2 DEF Create
<1>3. CASE Restored
    BY <1>3 DEF Restored, Offered, Fresh
<1>4. CASE Asks
    BY <1>4 DEF Asks, Offered
<1>5. CASE Consent
    BY <1>5 DEF Consent, Fresh
<1>6. CASE TryFails
    BY <1>6 DEF TryFails, Retry, Spent
<1>7. CASE Started
    BY <1>7 DEF Started
<1>8. CASE Save
    BY <1>8 DEF Save
<1>9. CASE BorderUp
    BY <1>9 DEF BorderUp
<1>10. CASE TeachUp
    BY <1>10 DEF TeachUp
<1>11. CASE IndicatorFails
    BY <1>11 DEF IndicatorFails
<1>12. CASE Switch
    BY <1>12 DEF Switch
<1>13. CASE BorderDies
    BY <1>13 DEF BorderDies
<1>14. ASSUME NEW o \in Displays, Replace(o)
       PROVE  Types'
    BY <1>14 DEF Replace
<1>15. CASE UserStop
    BY <1>15 DEF UserStop
<1>16. CASE Ends
    BY <1>16 DEF Ends
<1>17. CASE TeachDown
  <2>1. /\ teach' \in BOOLEAN /\ died' \in BOOLEAN /\ first' \in BOOLEAN /\ persist' \in BOOLEAN
        /\ forgotten' \in BOOLEAN /\ remembered' \in BOOLEAN
    BY <1>17 DEF TeachDown
  <2> QED
    BY <1>17, <2>1 DEF TeachDown
<1>18. CASE BorderDown
    BY <1>18 DEF BorderDown
<1>19. CASE PortalDown
    BY <1>19 DEF PortalDown
<1>20. CASE Killed
    BY <1>20 DEF Killed, Spent
<1>21. CASE Forget
    BY <1>21 DEF Forget
<1>22. CASE Forgotten
    BY <1>22 DEF Forgotten
<1>23. CASE Revoke
  <2>1. /\ teach' \in BOOLEAN /\ died' \in BOOLEAN /\ first' \in BOOLEAN /\ persist' \in BOOLEAN
        /\ forgotten' \in BOOLEAN /\ remembered' \in BOOLEAN
    BY <1>23 DEF Revoke
  <2> QED
    BY <1>23, <2>1 DEF Revoke
<1>24. CASE UNCHANGED vars
    BY <1>24 DEF vars
<1> QED
    BY <1>0, <1>1, <1>2, <1>3, <1>4, <1>5, <1>6, <1>7, <1>8, <1>9, <1>10, <1>11, <1>12,
       <1>13, <1>14, <1>15, <1>16, <1>17, <1>18, <1>19, <1>20, <1>21, <1>22, <1>23,
       <1>24 DEF Next

LEMMA StagesStep ==
    ASSUME TypeOK
    PROVE  [Next]_vars => Stages'
<1>0. SUFFICES ASSUME [Next]_vars
               PROVE  Stages'
    OBVIOUS
<1> USE DEF TypeOK, Types, Stages, Trying, Opening, Teardown, Displays, grant, shown, history
<1>1. CASE Open
    BY <1>1 DEF Open
<1>2. CASE Create
    BY <1>2 DEF Create
<1>3. CASE Restored
    BY <1>3 DEF Restored, Offered, Fresh
<1>4. CASE Asks
    BY <1>4 DEF Asks, Offered
<1>5. CASE Consent
    BY <1>5 DEF Consent, Fresh
<1>6. CASE TryFails
    BY <1>6 DEF TryFails, Retry, Spent
<1>7. CASE Started
    BY <1>7 DEF Started
<1>8. CASE Save
    BY <1>8 DEF Save
<1>9. CASE BorderUp
    BY <1>9 DEF BorderUp
<1>10. CASE TeachUp
    BY <1>10 DEF TeachUp
<1>11. CASE IndicatorFails
    BY <1>11 DEF IndicatorFails
<1>12. CASE Switch
    BY <1>12 DEF Switch
<1>13. CASE BorderDies
    BY <1>13 DEF BorderDies
<1>14. ASSUME NEW o \in Displays, Replace(o)
       PROVE  Stages'
    BY <1>14 DEF Replace
<1>15. CASE UserStop
    BY <1>15 DEF UserStop
<1>16. CASE Ends
    BY <1>16 DEF Ends
<1>17. CASE TeachDown
    BY <1>17 DEF TeachDown
<1>18. CASE BorderDown
    BY <1>18 DEF BorderDown
<1>19. CASE PortalDown
    BY <1>19 DEF PortalDown
<1>20. CASE Killed
    BY <1>20 DEF Killed, Spent
<1>21. CASE Forget
    BY <1>21 DEF Forget
<1>22. CASE Forgotten
    BY <1>22 DEF Forgotten
<1>23. CASE Revoke
    BY <1>23 DEF Revoke
<1>24. CASE UNCHANGED vars
    BY <1>24 DEF vars
<1> QED
    BY <1>0, <1>1, <1>2, <1>3, <1>4, <1>5, <1>6, <1>7, <1>8, <1>9, <1>10, <1>11, <1>12,
       <1>13, <1>14, <1>15, <1>16, <1>17, <1>18, <1>19, <1>20, <1>21, <1>22, <1>23,
       <1>24 DEF Next

LEMMA NothingToOfferStep ==
    ASSUME TypeOK, NothingToOffer
    PROVE  [Next]_vars => NothingToOffer'
<1>0. SUFFICES ASSUME [Next]_vars
               PROVE  NothingToOffer'
    OBVIOUS
<1> USE DEF TypeOK, Types, Stages, NothingToOffer, Trying, Opening, grant, shown, history
<1>1. CASE Open
    BY <1>1 DEF Open
<1>2. CASE Create
    BY <1>2 DEF Create
<1>3. CASE Restored
    BY <1>3 DEF Restored, Offered, Fresh
<1>4. CASE Asks
    BY <1>4 DEF Asks, Offered
<1>5. CASE Consent
    BY <1>5 DEF Consent, Fresh
<1>6. CASE TryFails
    BY <1>6 DEF TryFails, Retry, Spent
<1>7. CASE Started
    BY <1>7 DEF Started
<1>8. CASE Save
    BY <1>8 DEF Save
<1>9. CASE BorderUp
    BY <1>9 DEF BorderUp
<1>10. CASE TeachUp
    BY <1>10 DEF TeachUp
<1>11. CASE IndicatorFails
    BY <1>11 DEF IndicatorFails
<1>12. CASE Switch
    BY <1>12 DEF Switch
<1>13. CASE BorderDies
    BY <1>13 DEF BorderDies
<1>14. ASSUME NEW o \in Displays, Replace(o)
       PROVE  NothingToOffer'
    BY <1>14 DEF Replace
<1>15. CASE UserStop
    BY <1>15 DEF UserStop
<1>16. CASE Ends
    BY <1>16 DEF Ends
<1>17. CASE TeachDown
    BY <1>17 DEF TeachDown
<1>18. CASE BorderDown
    BY <1>18 DEF BorderDown
<1>19. CASE PortalDown
    BY <1>19 DEF PortalDown
<1>20. CASE Killed
    BY <1>20 DEF Killed, Spent
<1>21. CASE Forget
    BY <1>21 DEF Forget
<1>22. CASE Forgotten
    BY <1>22 DEF Forgotten
<1>23. CASE Revoke
    BY <1>23 DEF Revoke
<1>24. CASE UNCHANGED vars
    BY <1>24 DEF vars
<1> QED
    BY <1>0, <1>1, <1>2, <1>3, <1>4, <1>5, <1>6, <1>7, <1>8, <1>9, <1>10, <1>11, <1>12,
       <1>13, <1>14, <1>15, <1>16, <1>17, <1>18, <1>19, <1>20, <1>21, <1>22, <1>23,
       <1>24 DEF Next

LEMMA TokenOnTheWayStep ==
    ASSUME TypeOK, TokenOnTheWay
    PROVE  [Next]_vars => TokenOnTheWay'
<1>0. SUFFICES ASSUME [Next]_vars
               PROVE  TokenOnTheWay'
    OBVIOUS
<1> USE DEF TypeOK, Types, TokenOnTheWay, Trying, grant, shown, history
<1>1. CASE Open
    BY <1>1 DEF Open
<1>2. CASE Create
    BY <1>2 DEF Create
<1>3. CASE Restored
    BY <1>3 DEF Restored, Offered, Fresh
<1>4. CASE Asks
    BY <1>4 DEF Asks, Offered
<1>5. CASE Consent
    BY <1>5 DEF Consent, Fresh
<1>6. CASE TryFails
    BY <1>6 DEF TryFails, Retry, Spent
<1>7. CASE Started
    BY <1>7 DEF Started
<1>8. CASE Save
    BY <1>8 DEF Save
<1>9. CASE BorderUp
    BY <1>9 DEF BorderUp
<1>10. CASE TeachUp
    BY <1>10 DEF TeachUp
<1>11. CASE IndicatorFails
    BY <1>11 DEF IndicatorFails
<1>12. CASE Switch
    BY <1>12 DEF Switch
<1>13. CASE BorderDies
    BY <1>13 DEF BorderDies
<1>14. ASSUME NEW o \in Displays, Replace(o)
       PROVE  TokenOnTheWay'
    BY <1>14 DEF Replace
<1>15. CASE UserStop
    BY <1>15 DEF UserStop
<1>16. CASE Ends
    BY <1>16 DEF Ends
<1>17. CASE TeachDown
    BY <1>17 DEF TeachDown
<1>18. CASE BorderDown
    BY <1>18 DEF BorderDown
<1>19. CASE PortalDown
    BY <1>19 DEF PortalDown
<1>20. CASE Killed
    BY <1>20 DEF Killed, Spent
<1>21. CASE Forget
    BY <1>21 DEF Forget
<1>22. CASE Forgotten
    BY <1>22 DEF Forgotten
<1>23. CASE Revoke
    BY <1>23 DEF Revoke
<1>24. CASE UNCHANGED vars
    BY <1>24 DEF vars
<1> QED
    BY <1>0, <1>1, <1>2, <1>3, <1>4, <1>5, <1>6, <1>7, <1>8, <1>9, <1>10, <1>11, <1>12,
       <1>13, <1>14, <1>15, <1>16, <1>17, <1>18, <1>19, <1>20, <1>21, <1>22, <1>23,
       <1>24 DEF Next

LEMMA BorderFitsStep ==
    ASSUME TypeOK, BorderFits
    PROVE  [Next]_vars => BorderFits'
<1>0. SUFFICES ASSUME [Next]_vars
               PROVE  BorderFits'
    OBVIOUS
<1> USE DEF TypeOK, Types, BorderFits, grant, shown, history
<1>1. CASE Open
    BY <1>1 DEF Open
<1>2. CASE Create
    BY <1>2 DEF Create
<1>3. CASE Restored
    BY <1>3 DEF Restored, Offered, Fresh
<1>4. CASE Asks
    BY <1>4 DEF Asks, Offered
<1>5. CASE Consent
    BY <1>5 DEF Consent, Fresh
<1>6. CASE TryFails
    BY <1>6 DEF TryFails, Retry, Spent
<1>7. CASE Started
    BY <1>7 DEF Started
<1>8. CASE Save
    BY <1>8 DEF Save
<1>9. CASE BorderUp
    BY <1>9 DEF BorderUp
<1>10. CASE TeachUp
    BY <1>10 DEF TeachUp
<1>11. CASE IndicatorFails
    BY <1>11 DEF IndicatorFails
<1>12. CASE Switch
    BY <1>12 DEF Switch
<1>13. CASE BorderDies
    BY <1>13 DEF BorderDies
<1>14. ASSUME NEW o \in Displays, Replace(o)
       PROVE  BorderFits'
    BY <1>14 DEF Replace
<1>15. CASE UserStop
    BY <1>15 DEF UserStop
<1>16. CASE Ends
    BY <1>16 DEF Ends
<1>17. CASE TeachDown
    BY <1>17 DEF TeachDown
<1>18. CASE BorderDown
    BY <1>18 DEF BorderDown
<1>19. CASE PortalDown
    BY <1>19 DEF PortalDown
<1>20. CASE Killed
    BY <1>20 DEF Killed, Spent
<1>21. CASE Forget
    BY <1>21 DEF Forget
<1>22. CASE Forgotten
    BY <1>22 DEF Forgotten
<1>23. CASE Revoke
    BY <1>23 DEF Revoke
<1>24. CASE UNCHANGED vars
    BY <1>24 DEF vars
<1> QED
    BY <1>0, <1>1, <1>2, <1>3, <1>4, <1>5, <1>6, <1>7, <1>8, <1>9, <1>10, <1>11, <1>12,
       <1>13, <1>14, <1>15, <1>16, <1>17, <1>18, <1>19, <1>20, <1>21, <1>22, <1>23,
       <1>24 DEF Next

LEMMA Invariance == Spec => [](TypeOK /\ Inductive)
<1>1. Init => TypeOK /\ Inductive
    BY DEF Init, TypeOK, Types, Stages, Displays, Trying, Opening, Teardown, Inductive, NothingToOffer,
           TokenOnTheWay, BorderFits
<1>2. TypeOK /\ Inductive /\ [Next]_vars => TypeOK' /\ Inductive'
    BY TypesStep, StagesStep, NothingToOfferStep, TokenOnTheWayStep, BorderFitsStep
       DEF TypeOK, Inductive
<1> QED
    BY <1>1, <1>2, PTL DEF Spec

-----------------------------------------------------------------------------
(* Theorems. *)

\* Every reachable state is well typed, and no child process or portal session is
\* left when the daemon is gone.
THEOREM TypeCorrect == Spec => []TypeOK
    BY Invariance, PTL

\* No session is open after forget-session until the user was asked
\* (forget_session), for any number of sessions and tokens.
THEOREM ForgetMeansDialogHolds == Spec => []ForgetMeansDialog
<1>1. TypeOK /\ Inductive => ForgetMeansDialog
    BY DEF TypeOK, Types, Stages, Inductive, NothingToOffer, ForgetMeansDialog
<1> QED
    BY <1>1, Invariance, PTL

\* The file of a remembered user holds a good token (start_session), for any
\* number of sessions and tokens.
THEOREM SilentNextTimeHolds == Spec => []SilentNextTime
<1>1. Inductive => SilentNextTime
    BY DEF Inductive, TokenOnTheWay, SilentNextTime, Opening, Trying
<1> QED
    BY <1>1, Invariance, PTL

\* A served session has its overlay where the daemon believes it (set_output),
\* for any displays.
THEOREM IndicatorFitsHolds == Spec => []IndicatorFits
<1>1. Inductive => IndicatorFits
    BY DEF Inductive, BorderFits, IndicatorFits
<1> QED
    BY <1>1, Invariance, PTL

=============================================================================
