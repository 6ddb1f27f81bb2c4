-------------------------- MODULE SupervisorProofs --------------------------
(***************************************************************************)
(* Proofs about the connection supervisor (Supervisor.tla): type           *)
(* correctness, and that the indication callback requests the teardown of *)
(* an attached session only when the network ended it.                    *)
(***************************************************************************)
EXTENDS Supervisor, SequenceTheorems, TLAPS

\* The invariant TeardownOnlyOnNetworkEnd is not inductive: a callback step
\* sets teardown_requested from the indication at the head of the queue, so
\* what is queued must be tied to the modem state, and the bring-up steps
\* that create a session must see a released client and an empty queue.
IInv ==
    /\ TypeOK
    \* a released client has no session on the modem
    /\ \A f \in Fam : ~wds[f] => modem[f] = "none"
    \* a client without a modem session has no queued indications
    /\ \A f \in Fam : modem[f] = "none" => inds[f] = << >>
    \* a queued DISCONNECTED with a network reason means the network ended it
    /\ \A f \in Fam : \A i \in 1..Len(inds[f]) :
          inds[f][i] = "netEnd" => modem[f] = "netEnded"
    /\ TeardownOnlyOnNetworkEnd
    \* run_up_<fam> attaches a fresh client and starts from it
    /\ pc = "attach" => ~wds[fam]
    /\ pc = "start" => wds[fam] /\ modem[fam] = "none"
    \* no client outside Phase C; the v4 client only inside run_up_ipv4
    /\ pc \notin SessionPCs => \A f \in Fam : ~wds[f]
    /\ fam = "v6" => ~wds["v4"]

-----------------------------------------------------------------------------
(* Type correctness.                                                       *)

\* Queuing an indication for one session keeps every queue a sequence of
\* indication kinds.
LEMMA AppendTyped ==
    ASSUME NEW q \in [Fam -> Seq(IndKinds)], NEW g \in Fam,
           NEW k \in IndKinds
    PROVE  [q EXCEPT ![g] = Append(@, k)] \in [Fam -> Seq(IndKinds)]
BY AppendProperties

\* The answers of GetPower carry a mode or INVALID, and a modem that
\* accepted SetPower stays in a mode of OpModes.
LEMMA PowerTyped ==
    ASSUME NEW p \in [mode : OpModes, hw : BOOLEAN]
    PROVE  /\ PoweredOnline(p) \in [mode : OpModes, hw : BOOLEAN]
           /\ \A r \in PowerReports(p) : r.mode \in OpModes \cup {"INVALID"}
BY DEF PoweredOnline, PowerReports, OpModes

\* Every step of the main thread keeps every variable in its type: the
\* program counter among the program points of main.c, the session state
\* of each family a flag, an id and a queue of indication kinds.  Each case
\* first places the new program point, then types the other variables.
LEMMA MainThreadTyped ==
    ASSUME TypeOK, MainThread
    PROVE  TypeOK'
<1> USE DEF TypeOK, sessionVars, hostVars, powerVars
<1>1. CASE MainStartup
  <2>1. pc' \in MainPCs
    BY <1>1 DEF MainStartup, MainPCs
  <2>2. QED
    BY <1>1, <2>1 DEF MainStartup, Resources
<1>2. CASE EnsureWg0DownInitially
  <2>1. pc' \in MainPCs
    BY <1>2 DEF EnsureWg0DownInitially, MainPCs
  <2>2. QED
    BY <1>2, <2>1 DEF EnsureWg0DownInitially, EnsureLink, Links
<1>3. CASE ConfigureAutoconnect
  <2>1. pc' \in MainPCs
    BY <1>3 DEF ConfigureAutoconnect, Proceed, MainPCs
  <2>2. QED
    BY <1>3, <2>1 DEF ConfigureAutoconnect, Proceed
<1>4. CASE LoopHead
  <2>1. pc' \in MainPCs
    BY <1>4 DEF LoopHead, MainPCs
  <2>2. QED
    BY <1>4, <2>1 DEF LoopHead
<1>5. CASE \/ StopUnitBefore("chrony", "stop_chrony", "stop_unbound")
           \/ StopUnitBefore("unbound", "stop_unbound", "wwan_up")
  <2>1. pc' \in MainPCs
    BY <1>5 DEF StopUnitBefore, MainPCs
  <2>2. CASE StopUnitBefore("chrony", "stop_chrony", "stop_unbound")
    BY <2>2, <2>1 DEF StopUnitBefore, StopUnit, Units
  <2>3. CASE StopUnitBefore("unbound", "stop_unbound", "wwan_up")
    BY <2>3, <2>1 DEF StopUnitBefore, StopUnit, Units
  <2>4. QED
    BY <1>5, <2>2, <2>3
<1>6. CASE \/ EnsureLinkStep("wwan", TRUE, "wwan_up", "flush")
           \/ EnsureLinkStep("wwan", FALSE, "wwan_down", "wg0_down")
           \/ EnsureLinkStep("wg0", FALSE, "wg0_down", "stop_chrony2")
  <2>1. pc' \in MainPCs
    BY <1>6 DEF EnsureLinkStep, MainPCs
  <2>2. CASE EnsureLinkStep("wwan", TRUE, "wwan_up", "flush")
    BY <2>2, <2>1 DEF EnsureLinkStep, EnsureLink, Links
  <2>3. CASE EnsureLinkStep("wwan", FALSE, "wwan_down", "wg0_down")
    BY <2>3, <2>1 DEF EnsureLinkStep, EnsureLink, Links
  <2>4. CASE EnsureLinkStep("wg0", FALSE, "wg0_down", "stop_chrony2")
    BY <2>4, <2>1 DEF EnsureLinkStep, EnsureLink, Links
  <2>5. QED
    BY <1>6, <2>2, <2>3, <2>4
<1>7. CASE AddrFlush
  <2>1. pc' \in MainPCs
    BY <1>7 DEF AddrFlush, Proceed, MainPCs
  <2>2. QED
    BY <1>7, <2>1 DEF AddrFlush, Proceed
<1>8. CASE DmsInitialize
  <2>1. pc' \in MainPCs
    BY <1>8 DEF DmsInitialize, MainPCs
  <2>2. QED
    BY <1>8, <2>1 DEF DmsInitialize
<1>9. CASE DmsSetPower
  <2>1. pc' \in MainPCs
    BY <1>9 DEF DmsSetPower, AfterSetPower, MainPCs
  <2>2. power' \in [mode : OpModes, hw : BOOLEAN]
    BY <1>9, PowerTyped DEF DmsSetPower
  <2>3. mode' \in OpModes \cup {"INVALID"}
    BY <1>9, <2>2, PowerTyped DEF DmsSetPower
  <2>4. QED
    BY <1>9, <2>1, <2>2, <2>3 DEF DmsSetPower
<1>10. CASE WdsInitialize
  <2>1. pc' \in MainPCs
    BY <1>10 DEF WdsInitialize, ReturnFrom, MainPCs
  <2>2. QED
    BY <1>10, <2>1 DEF WdsInitialize, ReturnFrom, Fam
<1>11. CASE StartSession
  <2>1. pc' \in MainPCs
    BY <1>11 DEF StartSession, MainPCs
  <2>2. inds' \in [Fam -> Seq(IndKinds)]
    <3>1. [inds EXCEPT ![fam] = Append(@, "up")] \in [Fam -> Seq(IndKinds)]
      BY AppendTyped DEF IndKinds
    <3>2. QED
      BY <1>11, <3>1 DEF StartSession
  <2>3. QED
    BY <1>11, <2>1, <2>2 DEF StartSession, ModemStates
<1>12. CASE StartSessionReply
  <2>1. pc' \in MainPCs
    BY <1>12 DEF StartSessionReply, MainPCs
  <2>2. QED
    BY <1>12, <2>1 DEF StartSessionReply
<1>13. CASE GetRuntimeSettings
  <2>1. pc' \in MainPCs
    BY <1>13 DEF GetRuntimeSettings, MainPCs
  <2>2. QED
    BY <1>13, <2>1 DEF GetRuntimeSettings
<1>14. CASE ApplyRuntimeSettings
  <2>1. pc' \in MainPCs
    BY <1>14 DEF ApplyRuntimeSettings, MainPCs
  <2>2. QED
    BY <1>14, <2>1 DEF ApplyRuntimeSettings, Fam
<1>15. CASE \/ StartUnit("unbound", "start_unbound", "wg_up")
           \/ StartUnit("chrony", "start_chrony", "monitor")
  <2>1. pc' \in MainPCs
    BY <1>15 DEF StartUnit, MainPCs
  <2>2. CASE StartUnit("unbound", "start_unbound", "wg_up")
    BY <2>2, <2>1 DEF StartUnit, Units
  <2>3. CASE StartUnit("chrony", "start_chrony", "monitor")
    BY <2>3, <2>1 DEF StartUnit, Units
  <2>4. QED
    BY <1>15, <2>2, <2>3
<1>16. CASE WireguardUp
  <2>1. pc' \in MainPCs
    BY <1>16 DEF WireguardUp, MainPCs
  <2>2. QED
    BY <1>16, <2>1 DEF WireguardUp, Links
<1>17. CASE RunSessionsUp
  <2>1. pc' \in MainPCs
    BY <1>17 DEF RunSessionsUp, MainPCs
  <2>2. QED
    BY <1>17, <2>1 DEF RunSessionsUp
<1>18. CASE StopDataSession
  <2>1. pc' \in MainPCs
    BY <1>18 DEF StopDataSession, MainPCs
  <2>2. inds' \in [Fam -> Seq(IndKinds)]
    <3>1. [inds EXCEPT ![fam] = Append(@, "hostEnd")] \in [Fam -> Seq(IndKinds)]
      BY AppendTyped DEF IndKinds
    <3>2. QED
      BY <1>18, <3>1 DEF StopDataSession
  <2>3. QED
    BY <1>18, <2>1, <2>2 DEF StopDataSession, ModemStates
<1>19. CASE WdsShutdown
  <2>1. pc' \in MainPCs
    BY <1>19 DEF WdsShutdown, ReturnFrom, MainPCs
  <2>2. QED
    BY <1>19, <2>1 DEF WdsShutdown, ReturnFrom, ModemStates, Fam
<1>20. CASE DmsShutdown
  <2>1. pc' \in MainPCs
    BY <1>20 DEF DmsShutdown, MainPCs
  <2>2. QED
    BY <1>20, <2>1 DEF DmsShutdown
<1>21. CASE ReloadLinkCache
  <2>1. pc' \in MainPCs
    BY <1>21 DEF ReloadLinkCache, Proceed, MainPCs
  <2>2. QED
    BY <1>21, <2>1 DEF ReloadLinkCache, Proceed
<1>22. CASE \/ StopUnitAfter("chrony", "stop_chrony2", "stop_unbound2")
           \/ StopUnitAfter("unbound", "stop_unbound2", "loop")
  <2>1. pc' \in MainPCs
    BY <1>22 DEF StopUnitAfter, MainPCs
  <2>2. CASE StopUnitAfter("chrony", "stop_chrony2", "stop_unbound2")
    BY <2>2, <2>1 DEF StopUnitAfter, StopUnit, Units
  <2>3. CASE StopUnitAfter("unbound", "stop_unbound2", "loop")
    BY <2>3, <2>1 DEF StopUnitAfter, StopUnit, Units
  <2>4. QED
    BY <1>22, <2>2, <2>3
<1>23. CASE MainShutdown
  <2>1. pc' \in MainPCs
    BY <1>23 DEF MainShutdown, MainPCs
  <2>2. QED
    BY <1>23, <2>1 DEF MainShutdown, Links
<1>24. QED
  BY <1>1, <1>2, <1>3, <1>4, <1>5, <1>6, <1>7, <1>8, <1>9, <1>10, <1>11,
     <1>12, <1>13, <1>14, <1>15, <1>16, <1>17, <1>18, <1>19, <1>20, <1>21,
     <1>22, <1>23 DEF MainThread

\* No step of the system, of the main thread, the reader thread, the signal
\* handler or the modem, leaves the type.
LEMMA NextTyped == TypeOK /\ [Next]_vars => TypeOK'
<1> SUFFICES ASSUME TypeOK, [Next]_vars PROVE TypeOK'
  OBVIOUS
<1>1. CASE MainThread
  BY <1>1, MainThreadTyped
<1>2. CASE HandleSignal
  BY <1>2 DEF HandleSignal, TypeOK, sessionVars, hostVars, powerVars
<1>3. ASSUME NEW f \in Fam, NetworkEndsSession(f) PROVE TypeOK'
  BY <1>3, AppendTyped
     DEF NetworkEndsSession, TypeOK, IndKinds, ModemStates, hostVars, powerVars
<1>4. ASSUME NEW f \in Fam, WdsIndicationCallback(f) PROVE TypeOK'
  <2>1. Tail(inds[f]) \in Seq(IndKinds)
    BY <1>4, HeadTailProperties DEF WdsIndicationCallback, TypeOK
  <2>2. QED
    BY <1>4, <2>1 DEF WdsIndicationCallback, TypeOK, RequestsTeardown,
                      hostVars, powerVars
<1>5. CASE Terminated \/ UNCHANGED vars
  BY <1>5 DEF Terminated, vars, TypeOK
<1>6. QED
  BY <1>1, <1>2, <1>3, <1>4, <1>5 DEF Next

\* The initial state of main() is well typed.
LEMMA InitTyped == Init => TypeOK
<1> SUFFICES ASSUME Init PROVE TypeOK
  OBVIOUS
<1>1. pc \in MainPCs
  BY DEF Init, MainPCs
<1>2. inds \in [Fam -> Seq(IndKinds)]
  BY EmptySeq DEF Init
<1>3. modem \in [Fam -> ModemStates]
  BY DEF Init, ModemStates
<1>4. power \in [mode : OpModes, hw : BOOLEAN] /\ mode \in OpModes \cup {"INVALID"}
  BY DEF Init
<1>5. QED
  BY <1>1, <1>2, <1>3, <1>4 DEF Init, TypeOK, Fam

\* The process never leaves the type of any variable: every program point
\* of main.c, every session flag, id and indication queue stays well formed
\* whatever the signal, the network and the reader thread do.
THEOREM TypeCorrect == Spec => []TypeOK
<1>1. Init => TypeOK
  BY InitTyped
<1>2. TypeOK /\ [Next]_vars => TypeOK'
  BY NextTyped
<1>3. QED
  BY <1>1, <1>2, PTL DEF Spec

-----------------------------------------------------------------------------
(* Teardown is requested only for sessions the network ended.              *)

\* The filter of wds_indication_callback (wds.c:484-488) requests teardown
\* for no indication the modem sends except a network-ended DISCONNECTED:
\* a CONNECTED has status 2, a host-ended DISCONNECTED carries reason 2 or
\* the verbose client-end reason.
LEMMA FilterSelectsNetworkEnd ==
    ASSUME NEW k \in IndKinds, NEW r \in ModemRecords(k), NEW sid,
           RequestsTeardown(r, sid)
    PROVE  k = "netEnd"
<1>1. CASE k = "up"
  BY <1>1 DEF ModemRecords, RequestsTeardown
<1>2. CASE k = "hostEnd"
  BY <1>2 DEF ModemRecords, RequestsTeardown, ClientEndMarked
<1>3. QED
  BY <1>1, <1>2 DEF IndKinds

\* A step that leaves the session state alone keeps IInv when it does not
\* enter run_up_<fam> at its start, and leaves Phase C only from outside it.
LEMMA SessionFrame ==
    ASSUME IInv, TypeOK',
           UNCHANGED <<fam, wds, teardown_requested, modem, inds>>,
           \/ pc' = pc
           \/ pc' \in SessionPCs \ {"attach", "start"}
           \/ pc \notin SessionPCs /\ pc' # "start"
    PROVE  IInv'
<1>1. pc' = "attach" => ~wds'[fam']
  BY DEF IInv, TypeOK, SessionPCs
<1>2. pc' = "start" => wds'[fam'] /\ modem'[fam'] = "none"
  BY DEF IInv, TypeOK, SessionPCs
<1>3. pc' \notin SessionPCs => \A f \in Fam : ~wds'[f]
  BY DEF IInv, TypeOK, SessionPCs
<1>4. QED
  BY <1>1, <1>2, <1>3 DEF IInv, TeardownOnlyOnNetworkEnd

\* The indication callback requests teardown only after the head of the
\* queue was a network-ended DISCONNECTED, and only drops that head.
LEMMA CallbackKeepsIInv ==
    ASSUME IInv, TypeOK', NEW f \in Fam, WdsIndicationCallback(f)
    PROVE  IInv'
<1> USE DEF WdsIndicationCallback
<1>1. inds[f] \in Seq(IndKinds) /\ inds[f] # << >>
  BY DEF IInv, TypeOK
<1>2. Head(inds[f]) \in IndKinds
  BY <1>1, HeadTailProperties
<1>3. \A i \in 1..Len(inds'[f]) : inds'[f][i] = "netEnd" => modem'[f] = "netEnded"
  <2>1. \A i \in 1..Len(inds'[f]) : inds'[f][i] = inds[f][i+1] /\ i+1 \in 1..Len(inds[f])
    BY <1>1, HeadTailProperties DEF TypeOK
  <2>2. QED
    BY <2>1 DEF IInv
<1>4. modem[f] # "none"
  BY <1>1 DEF IInv
<1>5. teardown_requested'[f] /\ wds'[f] => modem'[f] = "netEnded"
  <2>1. PICK r \in ModemRecords(Head(inds[f])) :
          teardown_requested' = [teardown_requested EXCEPT ![f] =
                                    @ \/ RequestsTeardown(r, session_id[f])]
    OBVIOUS
  <2>2. CASE RequestsTeardown(r, session_id[f])
    <3>1. Head(inds[f]) = "netEnd"
      BY <1>2, <2>2, FilterSelectsNetworkEnd
    <3>2. inds[f][1] = "netEnd" /\ 1 \in 1..Len(inds[f])
      BY <1>1, <3>1, EmptySeq
    <3>3. QED
      BY <3>2 DEF IInv
  <2>3. CASE ~RequestsTeardown(r, session_id[f])
    BY <2>1, <2>3 DEF IInv, TypeOK, TeardownOnlyOnNetworkEnd
  <2>4. QED
    BY <2>2, <2>3
<1>6. QED
  <2>1. \A g \in Fam : g # f => teardown_requested'[g] = teardown_requested[g]
                                /\ inds'[g] = inds[g]
    BY DEF IInv, TypeOK
  <2>2. teardown_requested'[f] \in BOOLEAN
    BY DEF TypeOK
  <2>3. pc = "start" => fam # f
    BY <1>1 DEF IInv
  <2>4. QED
    BY <1>3, <1>4, <1>5, <2>1, <2>3 DEF IInv, TeardownOnlyOnNetworkEnd

\* The main-thread steps that do not touch a WDS session only move the
\* program counter, and keep IInv by SessionFrame.
LEMMA MainThreadFrame ==
    ASSUME IInv, TypeOK',
           \/ MainStartup \/ EnsureWg0DownInitially \/ ConfigureAutoconnect
           \/ LoopHead \/ AddrFlush \/ DmsInitialize \/ DmsSetPower
           \/ StopUnitBefore("chrony", "stop_chrony", "stop_unbound")
           \/ StopUnitBefore("unbound", "stop_unbound", "wwan_up")
           \/ EnsureLinkStep("wwan", TRUE, "wwan_up", "flush")
           \/ EnsureLinkStep("wwan", FALSE, "wwan_down", "wg0_down")
           \/ EnsureLinkStep("wg0", FALSE, "wg0_down", "stop_chrony2")
           \/ StartSessionReply \/ GetRuntimeSettings \/ WireguardUp
           \/ StartUnit("unbound", "start_unbound", "wg_up")
           \/ StartUnit("chrony", "start_chrony", "monitor")
           \/ RunSessionsUp \/ DmsShutdown \/ ReloadLinkCache
           \/ StopUnitAfter("chrony", "stop_chrony2", "stop_unbound2")
           \/ StopUnitAfter("unbound", "stop_unbound2", "loop")
           \/ MainShutdown
    PROVE  IInv'
<1> USE DEF sessionVars, hostVars, powerVars
<1>1. CASE MainStartup
  BY <1>1, SessionFrame DEF MainStartup, SessionPCs
<1>2. CASE EnsureWg0DownInitially
  BY <1>2, SessionFrame DEF EnsureWg0DownInitially, SessionPCs
<1>3. CASE ConfigureAutoconnect
  BY <1>3, SessionFrame DEF ConfigureAutoconnect, Proceed, SessionPCs
<1>4. CASE LoopHead
  BY <1>4, SessionFrame DEF LoopHead, SessionPCs
<1>5. CASE StopUnitBefore("chrony", "stop_chrony", "stop_unbound")
  BY <1>5, SessionFrame DEF StopUnitBefore, SessionPCs
<1>6. CASE StopUnitBefore("unbound", "stop_unbound", "wwan_up")
  BY <1>6, SessionFrame DEF StopUnitBefore, SessionPCs
<1>7. CASE EnsureLinkStep("wwan", TRUE, "wwan_up", "flush")
  BY <1>7, SessionFrame DEF EnsureLinkStep, SessionPCs
<1>8. CASE EnsureLinkStep("wwan", FALSE, "wwan_down", "wg0_down")
  BY <1>8, SessionFrame DEF EnsureLinkStep, SessionPCs
<1>9. CASE EnsureLinkStep("wg0", FALSE, "wg0_down", "stop_chrony2")
  BY <1>9, SessionFrame DEF EnsureLinkStep, SessionPCs
<1>10. CASE AddrFlush
  BY <1>10, SessionFrame DEF AddrFlush, Proceed, SessionPCs
<1>11. CASE DmsInitialize
  BY <1>11, SessionFrame DEF DmsInitialize, SessionPCs
<1>12. CASE DmsSetPower
  BY <1>12, SessionFrame DEF DmsSetPower, AfterSetPower, SessionPCs
<1>13. CASE StartSessionReply
  BY <1>13, SessionFrame DEF StartSessionReply, SessionPCs
<1>14. CASE GetRuntimeSettings
  BY <1>14, SessionFrame DEF GetRuntimeSettings, SessionPCs
<1>15. CASE StartUnit("unbound", "start_unbound", "wg_up")
  BY <1>15, SessionFrame DEF StartUnit, SessionPCs
<1>16. CASE WireguardUp
  BY <1>16, SessionFrame DEF WireguardUp, SessionPCs
<1>17. CASE StartUnit("chrony", "start_chrony", "monitor")
  BY <1>17, SessionFrame DEF StartUnit, SessionPCs
<1>18. CASE RunSessionsUp
  BY <1>18, SessionFrame DEF RunSessionsUp, SessionPCs
<1>19. CASE DmsShutdown
  BY <1>19, SessionFrame DEF DmsShutdown, SessionPCs
<1>20. CASE ReloadLinkCache
  BY <1>20, SessionFrame DEF ReloadLinkCache, Proceed, SessionPCs
<1>21. CASE StopUnitAfter("chrony", "stop_chrony2", "stop_unbound2")
  BY <1>21, SessionFrame DEF StopUnitAfter, SessionPCs
<1>22. CASE StopUnitAfter("unbound", "stop_unbound2", "loop")
  BY <1>22, SessionFrame DEF StopUnitAfter, SessionPCs
<1>23. CASE MainShutdown
  BY <1>23, SessionFrame DEF MainShutdown, SessionPCs
<1>24. QED
  BY <1>1, <1>2, <1>3, <1>4, <1>5, <1>6, <1>7, <1>8, <1>9, <1>10, <1>11,
     <1>12, <1>13, <1>14, <1>15, <1>16, <1>17, <1>18, <1>19, <1>20, <1>21,
     <1>22, <1>23

\* memset + mm_wds_initialize: on success the fresh client has no modem
\* session and no teardown request; on failure run_up_<fam> returns with
\* no client of its own.
LEMMA WdsInitializeKeepsIInv ==
    ASSUME IInv, TypeOK', WdsInitialize
    PROVE  IInv'
<1> USE DEF WdsInitialize, hostVars, powerVars
<1>1. ~wds[fam] /\ modem[fam] = "none" /\ fam \in Fam
  BY DEF IInv, TypeOK
<1>2. CASE wds' = [wds EXCEPT ![fam] = TRUE] /\ pc' = "start"
           /\ UNCHANGED <<fam, exit_requested>>
  BY <1>1, <1>2 DEF IInv, TypeOK, TeardownOnlyOnNetworkEnd, SessionPCs
<1>3. CASE exit_requested' = TRUE /\ ReturnFrom(fam) /\ UNCHANGED wds
  <2>1. CASE fam = "v4"
    BY <1>1, <1>3, <2>1 DEF IInv, TypeOK, TeardownOnlyOnNetworkEnd,
                            SessionPCs, ReturnFrom
  <2>2. CASE fam = "v6"
    <3>1. pc' = "dms_shutdown" /\ fam' = "v6" /\ pc' \notin SessionPCs
      BY <1>3, <2>2 DEF ReturnFrom, SessionPCs
    <3>2. \A f \in Fam : ~wds'[f]
      BY <1>1, <1>3, <2>2 DEF IInv, Fam
    <3>3. TeardownOnlyOnNetworkEnd'
      BY <1>1, <1>3 DEF IInv, TypeOK, TeardownOnlyOnNetworkEnd
    <3>4. modem' = modem /\ inds' = inds /\ wds' = wds
      BY <1>3
    <3>5. \A f \in Fam : modem'[f] = "none" /\ inds'[f] = << >>
      BY <3>2, <3>4 DEF IInv
    <3>6. \A f \in Fam : \A i \in 1..Len(inds'[f]) : inds'[f][i] = "netEnd"
                                                 => modem'[f] = "netEnded"
      BY <3>5, EmptySeq
    <3>7. pc' # "attach" /\ pc' # "start"
      BY <3>1
    <3>8. QED
      BY <3>1, <3>2, <3>3, <3>5, <3>6, <3>7 DEF IInv, Fam
  <2>3. QED
    BY <1>1, <2>1, <2>2 DEF Fam
<1>4. QED
  BY <1>2, <1>3

\* StartDataSession brings the modem session up and queues CONNECTED on a
\* fresh client, which has no teardown request.
LEMMA StartSessionKeepsIInv ==
    ASSUME IInv, TypeOK', StartSession
    PROVE  IInv'
<1> USE DEF StartSession, hostVars, powerVars
<1>1. CASE pc' = "detach" /\ UNCHANGED <<modem, inds>>
  BY <1>1, SessionFrame DEF SessionPCs
<1>2. CASE modem' = [modem EXCEPT ![fam] = "up"]
           /\ inds' = [inds EXCEPT ![fam] = Append(@, "up")]
           /\ pc' = "reply"
  <2>1. fam \in Fam /\ wds[fam] /\ inds[fam] = << >> /\ ~teardown_requested[fam]
    BY DEF IInv, TypeOK, TeardownOnlyOnNetworkEnd
  <2>2. inds'[fam] = << "up" >>
    BY <1>2, <2>1 DEF TypeOK
  <2>3. \A i \in 1..Len(inds'[fam]) : inds'[fam][i] # "netEnd"
    BY <2>2
  <2>4. QED
    BY <1>2, <2>1, <2>3 DEF IInv, TypeOK, TeardownOnlyOnNetworkEnd,
                            SessionPCs
<1>3. QED
  BY <1>1, <1>2

\* StopDataSession of a live session queues the host-ended DISCONNECTED;
\* a live session has no teardown request and no network-ended entry.
LEMMA StopDataSessionKeepsIInv ==
    ASSUME IInv, TypeOK', StopDataSession
    PROVE  IInv'
<1> USE DEF StopDataSession, hostVars, powerVars
<1>1. CASE /\ modem[fam] = "up"
           /\ modem' = [modem EXCEPT ![fam] = "hostEnded"]
           /\ inds' = [inds EXCEPT ![fam] = Append(@, "hostEnd")]
  <2>1. fam \in Fam /\ inds[fam] \in Seq(IndKinds) /\ wds[fam]
        /\ ~teardown_requested[fam]
    BY <1>1 DEF IInv, TypeOK, TeardownOnlyOnNetworkEnd
  <2>2. \A i \in 1..Len(inds[fam]) : inds[fam][i] # "netEnd"
    BY <1>1, <2>1 DEF IInv
  <2>3. /\ Len(inds'[fam]) = Len(inds[fam]) + 1
        /\ \A i \in 1..Len(inds[fam]) : inds'[fam][i] = inds[fam][i]
        /\ inds'[fam][Len(inds[fam]) + 1] = "hostEnd"
    <3>1. inds'[fam] = Append(inds[fam], "hostEnd")
      BY <1>1, <2>1 DEF TypeOK
    <3>2. "hostEnd" \in IndKinds
      BY DEF IndKinds
    <3>3. QED
      BY <2>1, <3>1, <3>2, AppendProperties
  <2>4. \A i \in 1..Len(inds'[fam]) : inds'[fam][i] # "netEnd"
    BY <2>1, <2>2, <2>3
  <2>5. QED
    BY <1>1, <2>1, <2>4 DEF IInv, TypeOK, TeardownOnlyOnNetworkEnd,
                            SessionPCs
<1>2. CASE UNCHANGED <<modem, inds>>
  BY <1>2, SessionFrame DEF SessionPCs
<1>3. QED
  BY <1>1, <1>2

\* mm_wds_shutdown releases the client with its modem session and queue;
\* run_up_ipv4 returns into run_up_ipv6, run_up_ipv6 out of Phase C with
\* no client left.
LEMMA WdsShutdownKeepsIInv ==
    ASSUME IInv, TypeOK', WdsShutdown
    PROVE  IInv'
<1> USE DEF WdsShutdown, hostVars, powerVars
<1>1. fam \in Fam
  BY DEF IInv, TypeOK
<1>2. CASE fam = "v4"
  BY <1>2 DEF IInv, TypeOK, TeardownOnlyOnNetworkEnd, SessionPCs, ReturnFrom
<1>3. CASE fam = "v6"
  <2>1. pc' = "dms_shutdown" /\ fam' = "v6" /\ pc' \notin SessionPCs
    BY <1>3 DEF ReturnFrom, SessionPCs
  <2>2. \A f \in Fam : ~wds'[f]
    BY <1>3 DEF IInv, TypeOK, Fam
  <2>3. QED
    BY <1>3, <2>1, <2>2 DEF IInv, TypeOK, TeardownOnlyOnNetworkEnd
<1>4. QED
  BY <1>1, <1>2, <1>3 DEF Fam

\* run_up_ipv6 enters run_up_ipv4 only with no v4 client attached.
LEMMA ApplyRuntimeSettingsKeepsIInv ==
    ASSUME IInv, TypeOK', ApplyRuntimeSettings
    PROVE  IInv'
<1> USE DEF ApplyRuntimeSettings, sessionVars, hostVars, powerVars
<1>1. CASE fam = "v6" /\ pc' = "attach" /\ fam' = "v4"
  BY <1>1 DEF IInv, TypeOK, TeardownOnlyOnNetworkEnd, SessionPCs
<1>2. CASE UNCHANGED fam /\ pc' \in {"start_unbound", "stop"}
  BY <1>2, SessionFrame DEF SessionPCs
<1>3. QED
  BY <1>1, <1>2


\* The network ends a live session: the modem state becomes netEnded for
\* every queued DISCONNECTED that will follow.
LEMMA NetworkEndsSessionKeepsIInv ==
    ASSUME IInv, TypeOK', NEW f \in Fam, NetworkEndsSession(f)
    PROVE  IInv'
<1> USE DEF NetworkEndsSession, hostVars, powerVars
<1>1. wds[f] /\ modem'[f] = "netEnded" /\ wds' = wds
  BY DEF IInv, TypeOK
<1>2. \A g \in Fam : g # f => modem'[g] = modem[g] /\ inds'[g] = inds[g]
  BY DEF IInv, TypeOK
<1>3. pc = "start" => fam # f
  BY DEF IInv
<1>4. \A g \in Fam : ~wds'[g] => modem'[g] = "none"
  BY <1>1, <1>2 DEF IInv
<1>5. \A g \in Fam : modem'[g] = "none" => inds'[g] = << >>
  BY <1>1, <1>2 DEF IInv
<1>6. \A g \in Fam : \A i \in 1..Len(inds'[g]) :
          inds'[g][i] = "netEnd" => modem'[g] = "netEnded"
  BY <1>1, <1>2 DEF IInv
<1>7. TeardownOnlyOnNetworkEnd'
  BY <1>1, <1>2 DEF IInv, TeardownOnlyOnNetworkEnd
<1>8. pc' = "start" => wds'[fam'] /\ modem'[fam'] = "none"
  BY <1>1, <1>2, <1>3 DEF IInv, TypeOK
<1>9. QED
  BY <1>1, <1>4, <1>5, <1>6, <1>7, <1>8 DEF IInv

\* IInv is preserved by every step of the system.
LEMMA IInvInductive == IInv /\ [Next]_vars => IInv'
<1> SUFFICES ASSUME IInv, [Next]_vars PROVE IInv'
  OBVIOUS
<1>1. TypeOK'
  BY NextTyped DEF IInv
<1>2. CASE MainThread
  BY <1>1, <1>2, MainThreadFrame, WdsInitializeKeepsIInv,
     StartSessionKeepsIInv, StopDataSessionKeepsIInv, WdsShutdownKeepsIInv,
     ApplyRuntimeSettingsKeepsIInv DEF MainThread
<1>3. CASE HandleSignal
  BY <1>1, <1>3, SessionFrame DEF HandleSignal, sessionVars, hostVars, powerVars
<1>4. ASSUME NEW f \in Fam, NetworkEndsSession(f) PROVE IInv'
  BY <1>1, <1>4, NetworkEndsSessionKeepsIInv
<1>5. ASSUME NEW f \in Fam, WdsIndicationCallback(f) PROVE IInv'
  BY <1>1, <1>5, CallbackKeepsIInv
<1>6. CASE Terminated \/ UNCHANGED vars
  BY <1>1, <1>6, SessionFrame DEF Terminated, vars
<1>7. QED
  BY <1>2, <1>3, <1>4, <1>5, <1>6 DEF Next

\* The initial state of main() satisfies IInv: no client, no modem
\* session, nothing queued.
LEMMA InitIInv == Init => IInv
<1> SUFFICES ASSUME Init PROVE IInv
  OBVIOUS
<1>1. TypeOK
  BY InitTyped
<1>2. \A f \in Fam : ~wds[f] /\ modem[f] = "none" /\ inds[f] = << >>
                     /\ ~teardown_requested[f]
  BY DEF Init
<1>3. \A f \in Fam : Len(inds[f]) = 0
  BY <1>2, EmptySeq
<1>4. pc = "startup" /\ pc \notin SessionPCs
  BY DEF Init, SessionPCs
<1>5. QED
  BY <1>1, <1>2, <1>3, <1>4 DEF IInv, TeardownOnlyOnNetworkEnd, Fam

LEMMA IInvHolds == Spec => []IInv
BY InitIInv, IInvInductive, PTL DEF Spec

\* The callback on the reader thread never asks the main thread to tear
\* down an attached session the network did not end: not on the CONNECTED
\* indication of a new session, not on the DISCONNECTED that follows the
\* host's own StopDataSession (wds.c:484-490), whatever the interleaving
\* with run_up_ipv6 / run_up_ipv4 and for any end-reason values.
THEOREM TeardownOnlyOnNetworkEndHolds == Spec => []TeardownOnlyOnNetworkEnd
<1>1. IInv => TeardownOnlyOnNetworkEnd
  BY DEF IInv
<1>2. QED
  BY <1>1, IInvHolds, PTL

-----------------------------------------------------------------------------
(* The nesting of the sessions and the start order of chrony.             *)

\* What run_up_ipv6 / run_up_ipv4 know at each point of Phase C: from the
\* StartDataSession reply on, the frame's client is attached, and once the
\* reply was unpacked its session id is set; run_up_ipv4 runs only inside
\* an established v6 session; and the steps before StartUnit(chrony) have
\* each done their part (main.c:1056-1083).  Relative to IInv, which
\* already keeps every client inside Phase C, this is inductive.
PhaseCInv ==
    /\ pc \in {"reply", "settings", "apply"} => wds[fam]
    /\ pc \in {"settings", "apply"} => session_id[fam] # 0
    /\ fam = "v4" => wds["v6"] /\ session_id["v6"] # 0
    /\ pc \in {"start_unbound", "wg_up", "start_chrony"} =>
          fam = "v4" /\ wds["v4"] /\ session_id["v4"] # 0
    /\ pc \in {"wg_up", "start_chrony"} => unit["unbound"]
    /\ pc = "start_chrony" => link["wg0"]

LEMMA InitPhaseCInv == Init => PhaseCInv
BY DEF Init, PhaseCInv

\* Every step keeps PhaseCInv, given IInv before the step.  Only the
\* bring-up steps of Phase C and the returns from run_up_* change what it
\* speaks of; every other step leaves fam, the clients, the session ids,
\* the units and the links alone or moves pc outside the points it names.
LEMMA PhaseCInductive == IInv /\ PhaseCInv /\ [Next]_vars => PhaseCInv'
<1> SUFFICES ASSUME IInv, PhaseCInv, [Next]_vars PROVE PhaseCInv'
  OBVIOUS
<1> USE DEF PhaseCInv, sessionVars, hostVars, powerVars
<1>0. TypeOK
  BY DEF IInv
<1>1. CASE MainStartup
  BY <1>1 DEF MainStartup
<1>2. CASE EnsureWg0DownInitially
  BY <1>2 DEF EnsureWg0DownInitially
<1>3. CASE ConfigureAutoconnect
  BY <1>3 DEF ConfigureAutoconnect, Proceed
<1>4. CASE LoopHead
  BY <1>4 DEF LoopHead
<1>5. CASE \E u \in Units, a, b \in MainPCs :
             /\ a \notin {"reply", "settings", "apply", "start_unbound",
                          "wg_up", "start_chrony"}
             /\ b \notin {"reply", "settings", "apply", "start_unbound",
                          "wg_up", "start_chrony"}
             /\ StopUnitBefore(u, a, b) \/ StopUnitAfter(u, a, b)
  BY <1>5 DEF StopUnitBefore, StopUnitAfter, StopUnit
<1>6. CASE \E l \in Links, up \in BOOLEAN, a, b \in MainPCs :
             /\ a \notin {"reply", "settings", "apply", "start_unbound",
                          "wg_up", "start_chrony"}
             /\ b \notin {"reply", "settings", "apply", "start_unbound",
                          "wg_up", "start_chrony"}
             /\ EnsureLinkStep(l, up, a, b)
  BY <1>6 DEF EnsureLinkStep, EnsureLink
<1>7. CASE AddrFlush \/ ReloadLinkCache
  BY <1>7 DEF AddrFlush, ReloadLinkCache, Proceed
<1>8. CASE DmsInitialize \/ DmsShutdown
  BY <1>8 DEF DmsInitialize, DmsShutdown
<1>9. CASE DmsSetPower
  BY <1>9 DEF DmsSetPower, AfterSetPower
<1>10. CASE WdsInitialize
  <2>1. fam = "v4" => wds["v6"] /\ session_id["v6"] # 0
    OBVIOUS
  <2>2. QED
    BY <1>0, <1>10, <2>1 DEF WdsInitialize, ReturnFrom, TypeOK, Fam
<1>11. CASE StartSession
  BY <1>11, <1>0 DEF StartSession, IInv
<1>12. CASE StartSessionReply
  BY <1>12, <1>0 DEF StartSessionReply, TypeOK, Fam
<1>13. CASE GetRuntimeSettings
  BY <1>13 DEF GetRuntimeSettings
<1>14. CASE ApplyRuntimeSettings
  BY <1>14, <1>0 DEF ApplyRuntimeSettings, TypeOK, Fam
<1>15. CASE StartUnit("unbound", "start_unbound", "wg_up")
  BY <1>15, <1>0 DEF StartUnit, TypeOK, Units
<1>16. CASE StartUnit("chrony", "start_chrony", "monitor")
  BY <1>16, <1>0 DEF StartUnit, TypeOK, Units
<1>17. CASE WireguardUp
  BY <1>17, <1>0 DEF WireguardUp, TypeOK, Links
<1>18. CASE RunSessionsUp \/ StopDataSession
  BY <1>18 DEF RunSessionsUp, StopDataSession
<1>19. CASE WdsShutdown
  BY <1>19, <1>0 DEF WdsShutdown, ReturnFrom, TypeOK, Fam
<1>20. CASE MainShutdown
  BY <1>20 DEF MainShutdown
<1>21. CASE HandleSignal \/ Terminated \/ UNCHANGED vars
  BY <1>21 DEF HandleSignal, Terminated, vars
<1>22. ASSUME NEW f \in Fam, NetworkEndsSession(f) \/ WdsIndicationCallback(f)
       PROVE  PhaseCInv'
  BY <1>22 DEF NetworkEndsSession, WdsIndicationCallback
<1>23. QED
  <2>1. CASE MainThread
    <3>1. StopUnitBefore("chrony", "stop_chrony", "stop_unbound")
          \/ StopUnitBefore("unbound", "stop_unbound", "wwan_up")
          \/ StopUnitAfter("chrony", "stop_chrony2", "stop_unbound2")
          \/ StopUnitAfter("unbound", "stop_unbound2", "loop")
          => \E u \in Units, a, b \in MainPCs :
               /\ a \notin {"reply", "settings", "apply", "start_unbound",
                            "wg_up", "start_chrony"}
               /\ b \notin {"reply", "settings", "apply", "start_unbound",
                            "wg_up", "start_chrony"}
               /\ StopUnitBefore(u, a, b) \/ StopUnitAfter(u, a, b)
      BY DEF Units, MainPCs
    <3>2. EnsureLinkStep("wwan", TRUE, "wwan_up", "flush")
          \/ EnsureLinkStep("wwan", FALSE, "wwan_down", "wg0_down")
          \/ EnsureLinkStep("wg0", FALSE, "wg0_down", "stop_chrony2")
          => \E l \in Links, up \in BOOLEAN, a, b \in MainPCs :
               /\ a \notin {"reply", "settings", "apply", "start_unbound",
                            "wg_up", "start_chrony"}
               /\ b \notin {"reply", "settings", "apply", "start_unbound",
                            "wg_up", "start_chrony"}
               /\ EnsureLinkStep(l, up, a, b)
      BY DEF Links, MainPCs
    <3>3. QED
      BY <2>1, <3>1, <3>2, <1>1, <1>2, <1>3, <1>4, <1>5, <1>6, <1>7, <1>8,
         <1>9, <1>10, <1>11, <1>12, <1>13, <1>14, <1>15, <1>16, <1>17,
         <1>18, <1>19, <1>20 DEF MainThread
  <2>2. QED
    BY <2>1, <1>21, <1>22 DEF Next

LEMMA PhaseCInvHolds == Spec => []PhaseCInv
<1>1. IInv /\ PhaseCInv /\ [Next]_vars => PhaseCInv'
  BY PhaseCInductive
<1>2. QED
  BY <1>1, InitPhaseCInv, IInvHolds, PTL DEF Spec

\* SessionNesting: the v4 client is allocated only while the v6 session is
\* established (run_up_ipv4 is called from inside run_up_ipv6, after its
\* StartDataSession succeeded), and no client is left allocated once the
\* main thread is outside Phase C (every run_up_* ends in WdsShutdown).
THEOREM SessionNestingHolds == Spec => []SessionNesting
<1>1. IInv /\ PhaseCInv => SessionNesting
  <2> SUFFICES ASSUME IInv, PhaseCInv PROVE SessionNesting
    OBVIOUS
  <2>1. wds["v4"] => fam = "v4"
    BY DEF IInv, TypeOK, Fam
  <2>2. QED
    BY <2>1 DEF IInv, PhaseCInv, SessionNesting
<1>2. QED
  BY <1>1, IInvHolds, PhaseCInvHolds, PTL

\* The step form of ChronyStartOrder: the only step that starts chrony is
\* StartUnit(chrony) at the end of run_up_ipv4, and PhaseCInv says what
\* holds there.
LEMMA ChronyStartStep ==
  IInv /\ PhaseCInv /\ [Next]_vars =>
     (~unit["chrony"] /\ unit'["chrony"] =>
         /\ unit["unbound"] /\ link["wg0"]
         /\ \A f \in Fam : wds[f] /\ session_id[f] # 0)
<1> SUFFICES ASSUME IInv, PhaseCInv, [Next]_vars,
                    ~unit["chrony"], unit'["chrony"]
             PROVE  /\ unit["unbound"] /\ link["wg0"]
                    /\ \A f \in Fam : wds[f] /\ session_id[f] # 0
  OBVIOUS
<1>1. pc = "start_chrony"
  \* every other step leaves unit["chrony"] alone or sets it FALSE
  <2>1. TypeOK
    BY DEF IInv
  <2>2. CASE MainThread
    BY <2>1, <2>2 DEF MainThread, MainStartup, EnsureWg0DownInitially,
       ConfigureAutoconnect, Proceed, LoopHead, StopUnitBefore,
       StopUnitAfter, StopUnit, EnsureLinkStep, AddrFlush, DmsInitialize,
       DmsSetPower, WdsInitialize, StartSession, StartSessionReply,
       GetRuntimeSettings, ApplyRuntimeSettings, StartUnit, WireguardUp,
       RunSessionsUp, StopDataSession, WdsShutdown, DmsShutdown,
       ReloadLinkCache, MainShutdown, hostVars, TypeOK, Units
  <2>3. CASE ~MainThread
    BY <2>3 DEF Next, HandleSignal, NetworkEndsSession,
       WdsIndicationCallback, Terminated, vars, hostVars
  <2>4. QED
    BY <2>2, <2>3
<1>2. fam = "v4" /\ wds["v4"] /\ session_id["v4"] # 0
      /\ wds["v6"] /\ session_id["v6"] # 0
  BY <1>1 DEF PhaseCInv
<1>3. QED
  BY <1>1, <1>2 DEF PhaseCInv, Fam

\* ChronyStartOrder: chronyd is started only after unbound is running and
\* wg0 is up, inside both established data sessions (main.c, run_up_ipv4).
THEOREM ChronyStartOrderHolds == Spec => ChronyStartOrder
<1>1. IInv /\ PhaseCInv /\ [Next]_vars =>
        [~unit["chrony"] /\ unit'["chrony"] =>
           /\ unit["unbound"] /\ link["wg0"]
           /\ \A f \in Fam : wds[f] /\ session_id[f] # 0]_vars
  BY ChronyStartStep
<1>2. QED
  BY <1>1, IInvHolds, PhaseCInvHolds, PTL DEF Spec, ChronyStartOrder

====
