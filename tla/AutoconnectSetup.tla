---------------------------- MODULE AutoconnectSetup ----------------------------
(***************************************************************************)
(* mm_configure_autoconnect_and_roaming (src/unnamed/part_007) with        *)
(* mm_wds_set_autoconnect_settings and mm_wds_get_autoconnect_settings     *)
(* (src/unnamed/part_008): a short-lived WDS client, attached with no      *)
(* session context, reads the modem's autoconnect settings and writes     *)
(* DISABLED / HOME_ONLY unless they already match, then detaches.  While   *)
(* it is attached the transport's reader thread may run                    *)
(* wds_indication_callback for it with that NULL context.                  *)
(***************************************************************************)
EXTENDS Naturals, TLAPS

Settings == {"DISABLED", "ENABLED", "PAUSED"}
RoamSettings == {"ALWAYS", "HOME_ONLY"}
INVALID == "INVALID"

\* The request made by mm_configure_autoconnect_and_roaming.
Requested == [setting |-> "DISABLED", roam |-> "HOME_ONLY"]

\* Requests either succeed or end in a transport error or a TLV error.
Errors == {"none", "send_error", "tlv_error"}

VARIABLES
    pc,        \* "init", "get", "set", "shutdown", "returned"
    status,    \* the function's status
    modem,     \* the modem's autoconnect settings
    current,   \* the setter's current_autoconnect_setting / _roam_setting
    attached,  \* the setup client is registered for indications
    derefNull  \* the callback has read through the NULL session pointer

vars == <<pc, status, modem, current, attached, derefNull>>

TypeOK ==
    /\ pc \in {"init", "get", "set", "shutdown", "returned"}
    /\ status \in Errors
    /\ modem \in [setting : Settings, roam : RoamSettings]
    /\ current \in [setting : Settings \cup {INVALID}, roam : RoamSettings \cup {INVALID}]
    /\ attached \in BOOLEAN /\ derefNull \in BOOLEAN

\* The firmware may come up with any settings (autoconnect left enabled by
\* an earlier user is the case this setup exists for).
Init ==
    /\ pc = "init" /\ status = "none"
    /\ modem \in [setting : Settings, roam : RoamSettings]
    /\ current = [setting |-> "DISABLED", roam |-> INVALID]
    /\ attached = FALSE /\ derefNull = FALSE

\* mm_wds_initialize(&wds, ctl, NULL): attach with a NULL context.
InitializeClient ==
    /\ pc = "init"
    /\ \/ /\ status' = "none" /\ attached' = TRUE /\ pc' = "get"
       \/ /\ status' = "send_error" /\ pc' = "returned"
          /\ UNCHANGED attached
    /\ UNCHANGED <<modem, current, derefNull>>

\* Mutant: || for && in the test, the write skipped when either matches.
SettingsMatchEither(cur, curRoam) ==
    cur = Requested.setting \/ curRoam = Requested.roam

\* The test that makes the setter skip its write.
SettingsMatch(cur, curRoam) ==
    cur = Requested.setting /\ curRoam = Requested.roam

\* The values the getter reports: the setting when its TLV (bit 1) is
\* present, the roam setting when the unpacked response carries it;
\* otherwise INVALID.
Reported(hasSetting, hasRoam) ==
    [setting |-> IF hasSetting THEN modem.setting ELSE INVALID,
     roam    |-> IF hasRoam THEN modem.roam ELSE INVALID]

\* mm_wds_set_autoconnect_settings, first half: query the current
\* settings (the getter sets both to INVALID before its request); on an
\* error return it; if they match, return success.
GetAutoconnect ==
    /\ pc = "get"
    /\ \/ /\ status' \in {"send_error", "tlv_error"}
          /\ current' = Reported(FALSE, FALSE)
          /\ pc' = "shutdown"
       \/ \E hasSetting, hasRoam \in BOOLEAN :
            /\ current' = Reported(hasSetting, hasRoam)
            /\ status' = "none"
            /\ pc' = IF SettingsMatch(current'.setting, current'.roam)
                        THEN "shutdown" ELSE "set"
    /\ UNCHANGED <<modem, attached, derefNull>>

\* Second half: the SetAutoconnect request.  A transport error may come
\* after the modem applied it; a TLV error means it was refused.
SetAutoconnect ==
    /\ pc = "set"
    /\ \/ /\ status' = "none" /\ modem' = Requested
       \/ /\ status' = "send_error" /\ modem' \in {modem, Requested}
       \/ /\ status' = "tlv_error" /\ UNCHANGED modem
    /\ pc' = "shutdown"
    /\ UNCHANGED <<current, attached, derefNull>>

\* mm_wds_shutdown (CtlService_ShutDownRegularService): on success the
\* client is detached; a failure replaces the status, and whether the
\* library unregistered the client before failing is not said by the code
\* under src, so either may hold.
ShutdownClient ==
    /\ pc = "shutdown"
    /\ \/ /\ status' = status /\ attached' = FALSE
       \/ /\ status' = "send_error" /\ attached' \in BOOLEAN
    /\ pc' = "returned"
    /\ UNCHANGED <<modem, current, derefNull>>

\* The reader thread runs wds_indication_callback with context NULL.  A
\* packet service status indication that unpacks, has no TLV error and
\* carries the mandatory connection status TLV (bit 1) is logged; with a
\* session end reason (bit 16) or a verbose reason (bit 17) the log line
\* reads session->session_id.  Only the final teardown test checks
\* session for NULL.
IndicationCallback ==
    /\ attached
    /\ \E pktStatus, unpacked, tlvOk \in BOOLEAN, pres \in SUBSET {1, 16, 17} :
         derefNull' = (derefNull \/
             (pktStatus /\ unpacked /\ tlvOk /\ 1 \in pres /\ pres \cap {16, 17} # {}))
    /\ UNCHANGED <<pc, status, modem, current, attached>>

\* The function has returned; the thread goes on to Phase B.
Returned ==
    /\ pc = "returned"
    /\ UNCHANGED vars

Next ==
    \/ InitializeClient \/ GetAutoconnect \/ SetAutoconnect
    \/ ShutdownClient \/ IndicationCallback \/ Returned

Spec == Init /\ [][Next]_vars

-----------------------------------------------------------------------------
(* Properties.                                                             *)

\* Phase A (spec.md 4.6): when mm_configure_autoconnect_and_roaming
\* reports success, the modem holds autoconnect DISABLED and roaming
\* HOME_ONLY, whatever it held before and whatever the getter reported.
AutoconnectConfigured ==
    pc = "returned" /\ status = "none" => modem = Requested

\* The callback never reads a session field through the NULL context of
\* the setup client (spec.md 4.3: the callback is registered with the
\* session as its context).
NoNullSessionAccess == ~derefNull

-----------------------------------------------------------------------------
(* Proofs.                                                                 *)

\* Every variable keeps its type.
THEOREM TypeCorrect == Spec => []TypeOK
<1>1. Init => TypeOK
      <2> SUFFICES ASSUME Init PROVE TypeOK OBVIOUS
      <2>1. current \in [setting : Settings \cup {INVALID}, roam : RoamSettings \cup {INVALID}]
            BY DEF Init, INVALID, Settings, RoamSettings
      <2>2. QED BY <2>1 DEF Init, TypeOK, Errors
<1>2. TypeOK /\ [Next]_vars => TypeOK'
      <2> SUFFICES ASSUME TypeOK, [Next]_vars PROVE TypeOK' OBVIOUS
      <2>1. CASE InitializeClient
            BY <2>1 DEF InitializeClient, TypeOK, Errors
      <2>2. CASE GetAutoconnect
            BY <2>2 DEF GetAutoconnect, TypeOK, Reported, Errors, Settings, RoamSettings
      <2>3. CASE SetAutoconnect
            BY <2>3 DEF SetAutoconnect, TypeOK, Requested, Errors, Settings, RoamSettings
      <2>4. CASE ShutdownClient
            BY <2>4 DEF ShutdownClient, TypeOK, Errors
      <2>5. CASE IndicationCallback
            BY <2>5 DEF IndicationCallback, TypeOK
      <2>6. CASE Returned \/ UNCHANGED vars
            BY <2>6 DEF Returned, vars, TypeOK
      <2>7. QED BY <2>1, <2>2, <2>3, <2>4, <2>5, <2>6 DEF Next
<1>3. QED BY <1>1, <1>2, PTL DEF Spec

\* From the read of the settings on, a success status means the modem
\* holds the requested settings: either the getter reported both and they
\* matched, or the write succeeded.
IInv ==
    pc \in {"shutdown", "returned"} /\ status = "none" => modem = Requested

\* A match can only be seen on values the getter really read: INVALID
\* never equals a requested setting.
LEMMA MatchMeansRequested ==
    ASSUME NEW hasSetting \in BOOLEAN, NEW hasRoam \in BOOLEAN,
           SettingsMatch(Reported(hasSetting, hasRoam).setting,
                         Reported(hasSetting, hasRoam).roam),
           modem \in [setting : Settings, roam : RoamSettings]
    PROVE  modem = Requested
BY DEF SettingsMatch, Reported, Requested, INVALID, Settings, RoamSettings

LEMMA IInvInductive == TypeOK /\ IInv /\ [Next]_vars => IInv'
<1> SUFFICES ASSUME TypeOK, IInv, [Next]_vars PROVE IInv' OBVIOUS
<1>1. CASE InitializeClient
      BY <1>1 DEF InitializeClient, IInv
<1>2. CASE GetAutoconnect
      <2>1. CASE status' \in {"send_error", "tlv_error"}
            BY <1>2, <2>1 DEF GetAutoconnect, IInv
      <2>2. CASE status' = "none"
            <3>1. PICK hasSetting, hasRoam \in BOOLEAN :
                    /\ current' = Reported(hasSetting, hasRoam)
                    /\ pc' = IF SettingsMatch(current'.setting, current'.roam)
                              THEN "shutdown" ELSE "set"
                  BY <1>2, <2>2 DEF GetAutoconnect
            <3>2. pc' = "shutdown" => modem = Requested
                  BY <3>1, MatchMeansRequested DEF TypeOK
            <3>3. QED BY <1>2, <3>2 DEF GetAutoconnect, IInv
      <2>3. QED BY <1>2, <2>1, <2>2 DEF GetAutoconnect
<1>3. CASE SetAutoconnect
      BY <1>3 DEF SetAutoconnect, IInv
<1>4. CASE ShutdownClient
      BY <1>4 DEF ShutdownClient, IInv
<1>5. CASE IndicationCallback
      BY <1>5 DEF IndicationCallback, IInv
<1>6. CASE Returned \/ UNCHANGED vars
      BY <1>6 DEF Returned, vars, IInv
<1>7. QED BY <1>1, <1>2, <1>3, <1>4, <1>5, <1>6 DEF Next

\* Phase A: mm_configure_autoconnect_and_roaming returns success only with
\* the modem at autoconnect DISABLED and roaming HOME_ONLY, whatever the
\* firmware held and whichever TLVs the getter reported.
THEOREM AutoconnectConfiguredHolds == Spec => []AutoconnectConfigured
<1>1. Init => IInv
      BY DEF Init, IInv
<1>2. IInv => AutoconnectConfigured
      BY DEF IInv, AutoconnectConfigured
<1>3. QED BY <1>1, <1>2, TypeCorrect, IInvInductive, PTL DEF Spec

====
