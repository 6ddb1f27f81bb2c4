----------------------------- MODULE Supervisor -----------------------------
(***************************************************************************)
(* The connection supervisor of modem-monitor (src/main.c, which is the    *)
(* second half of src/src/netlink.c): main(), the outer loop initialize(), *)
(* the nested bring-up run_up_ipv6() / run_up_ipv4(), the monitor         *)
(* run_sessions_up(), together with the WDS indication callback that runs  *)
(* on the QMI transport's reader thread, the SIGINT handler, and the modem *)
(* as the environment that starts, ends and reports packet sessions.       *)
(*                                                                         *)
(* Every collaborator call (QMI request, netlink request, sd-bus call,     *)
(* subprocess) is one action of the main thread whose outcome, success or  *)
(* failure, is chosen nondeterministically; the branches the code takes on *)
(* each outcome are kept.  Data (addresses, ids, unit names) is abstracted *)
(* to what the properties tell apart.                                      *)
(***************************************************************************)
EXTENDS Naturals, Sequences

CONSTANTS
    EndReasons,      \* values the modem may put in the session_end_reason TLV
    VerboseTypes,    \* values of the verbose_session_end_reason_type TLV
    VerboseReasons   \* values of the verbose_session_end_reason TLV

\* The client-ended markers the callback tests for (wds.c:484-488) must be
\* among the values the modem can send, or the filter is never exercised.
ASSUME ConstantsAssumption ==
    /\ EndReasons \subseteq Nat /\ 2 \in EndReasons /\ EndReasons # {2}
    /\ VerboseTypes \subseteq Nat /\ 3 \in VerboseTypes
    /\ VerboseReasons \subseteq Nat /\ 2000 \in VerboseReasons
    /\ VerboseTypes \X VerboseReasons # {<<3, 2000>>}

Fam   == {"v4", "v6"}               \* the two WDS sessions (AF_INET, AF_INET6)
Links == {"wwan", "wg0"}            \* mhi_hwip0 and the WireGuard link
Units == {"chrony", "unbound"}      \* chrony.service, unbound.service
Resources == {"qmux", "ctl", "nl", "bus"}   \* what main() holds

\* Modem-side state of the packet session owned by one WDS client.
ModemStates == {"none", "up", "netEnded", "hostEnded"}

\* What the modem reports in a packet-service-status indication: the
\* session came up, the network ended it, or it ended at the host's request.
IndKinds == {"up", "netEnd", "hostEnd"}

\* Operating modes of the modem (enum mm_dms_operation_mode): ONLINE, the
\* one requested, and LOW_POWER standing for every other mode, which the
\* code does not tell apart (main.c:884 tests only for ONLINE).
OpModes == {"ONLINE", "LOW_POWER"}

MainPCs ==
    {"startup", "wg0_init", "autoconnect", "loop", "stop_chrony",
     "stop_unbound", "wwan_up", "flush", "dms_init", "set_power",
     "attach", "start", "reply", "settings", "apply", "start_unbound",
     "wg_up", "start_chrony", "monitor", "stop", "detach",
     "dms_shutdown", "reload", "wwan_down", "wg0_down", "stop_chrony2",
     "stop_unbound2", "cleanup", "done"}

\* The program points inside run_up_ipv6 / run_up_ipv4 (Phase C).
SessionPCs ==
    {"attach", "start", "reply", "settings", "apply", "start_unbound",
     "wg_up", "start_chrony", "monitor", "stop", "detach"}

VARIABLES
    pc,                  \* program point of the main thread
    fam,                 \* the session whose run_up_* frame is innermost
    exit_requested,      \* main.c:792, set by handle_signal and on host faults
    held,                \* transport, CtlService, netlink, sd-bus held by main
    link,                \* IFF_UP of each link in the kernel
    unit,                \* whether each systemd unit is running
    stopFailed,          \* history: the last StopUnit of the unit failed
    dms,                 \* the DMS and SWI-DMS clients are attached
    model_id,            \* dms->model_id is cached (non-NULL)
    wds,                 \* the WDS client of each session is attached
    session_id,          \* session->session_id, 0 or 1 standing for non-zero
    teardown_requested,  \* session->teardown_requested
    modem,               \* modem-side state of each session
    inds,                \* indications queued for delivery to each client
    power,               \* the modem's operating mode and hardware lock
    mode                 \* initialize()'s mode, set by mm_dms_set_power_sync

vars == <<pc, fam, exit_requested, held, link, unit, stopFailed, dms,
          model_id, wds, session_id, teardown_requested, modem, inds,
          power, mode>>

-----------------------------------------------------------------------------
(* Indications as the callback sees them (wds.c:396-427).                  *)

IndRecords ==
    [status: {1, 2}, reasonPresent: BOOLEAN, reason: EndReasons,
     verbosePresent: BOOLEAN, vtype: VerboseTypes, vreason: VerboseReasons]

\* The end reasons the modem reports for a session the host stopped
\* (CALL_END_CLIENT_END: reason 2, or verbose type 3 / reason 2000).
ClientEndMarked(r) ==
    \/ r.reasonPresent /\ r.reason = 2
    \/ r.verbosePresent /\ r.vtype = 3 /\ r.vreason = 2000

\* The indications the modem may send for each kind of event.
ModemRecords(k) ==
    CASE k = "up"      -> {r \in IndRecords : r.status = 2
                                /\ ~r.reasonPresent /\ ~r.verbosePresent}
      [] k = "netEnd"  -> {r \in IndRecords : r.status = 1 /\ ~ClientEndMarked(r)}
      [] k = "hostEnd" -> {r \in IndRecords : r.status = 1 /\ ClientEndMarked(r)}

\* Mutant: the filter tests only the verbose end reason, not reason 2.
RequestsTeardownVerboseOnly(r, sid) ==
    /\ sid # 0
    /\ r.status = 1
    /\ ~(r.verbosePresent /\ r.vtype = 3 /\ r.vreason = 2000)

\* wds.c:484-488: the condition under which the callback sets
\* teardown_requested, given the session_id it reads.
RequestsTeardown(r, sid) ==
    /\ sid # 0
    /\ r.status = 1
    /\ ~(\/ r.reasonPresent /\ r.reason = 2
         \/ r.verbosePresent /\ r.vtype = 3 /\ r.vreason = 2000)

-----------------------------------------------------------------------------
Init ==
    /\ pc = "startup"
    /\ fam = "v6"
    /\ exit_requested = FALSE
    /\ held = {}
    /\ link \in [Links -> BOOLEAN]
    /\ unit = [u \in Units |-> FALSE]
    /\ stopFailed = [u \in Units |-> FALSE]
    /\ dms = FALSE
    /\ model_id = FALSE
    /\ wds = [f \in Fam |-> FALSE]
    /\ session_id = [f \in Fam |-> 0]
    /\ teardown_requested = [f \in Fam |-> FALSE]
    /\ modem = [f \in Fam |-> "none"]
    /\ inds = [f \in Fam |-> <<>>]
    /\ power \in [mode : OpModes, hw : BOOLEAN]
    /\ mode = "INVALID"

\* Variable groups left alone by most steps.
sessionVars == <<wds, session_id, teardown_requested, modem, inds>>
hostVars    == <<link, unit, stopFailed>>
powerVars   == <<power, mode>>

-----------------------------------------------------------------------------
(* main(): acquire the transport, CtlService, netlink and sd-bus in order;  *)
(* a failure releases what was acquired and exits.                          *)

MainStartup ==
    /\ pc = "startup"
    /\ \/ held' = {} /\ pc' = "done"       \* transport, ctl or netlink fails
       \/ held' = Resources \ {"bus"} /\ pc' = "cleanup"   \* bus fails
       \/ held' = Resources /\ pc' = "wg0_init"
    /\ UNCHANGED <<fam, exit_requested, hostVars, dms, model_id, powerVars, sessionVars>>

\* main.c:998-1015: close the bus, flush addresses and put wwan down (the
\* chain stops at the first failure), release netlink, CtlService and the
\* transport.
MainShutdown ==
    /\ pc = "cleanup"
    /\ \E wwanDown \in BOOLEAN :
          link' = IF wwanDown THEN [link EXCEPT !["wwan"] = FALSE] ELSE link
    /\ held' = {}
    /\ pc' = "done"
    /\ UNCHANGED <<fam, exit_requested, unit, stopFailed, dms, model_id, powerVars,
                   sessionVars>>

\* ensure_interface_state: set IFF_UP of l to up, or fail leaving it.
EnsureLink(l, up, ok) ==
    link' = IF ok THEN [link EXCEPT ![l] = up] ELSE link

\* mm_sdbus_manage_service(bus, "StopUnit", u).
StopUnit(u, ok) ==
    /\ unit' = IF ok THEN [unit EXCEPT ![u] = FALSE] ELSE unit
    /\ stopFailed' = [stopFailed EXCEPT ![u] = ~ok]

\* A step of the main thread that only moves on or breaks out of the loop.
Proceed(from, to) ==
    /\ pc = from
    /\ \E ok \in BOOLEAN : pc' = IF ok THEN to ELSE "cleanup"
    /\ UNCHANGED <<fam, exit_requested, held, hostVars, dms, model_id, powerVars,
                   sessionVars>>

(* initialize(), Phase A: main.c:817-827.                                   *)
EnsureWg0DownInitially ==
    /\ pc = "wg0_init"
    /\ \E ok \in BOOLEAN :
          /\ EnsureLink("wg0", FALSE, ok)
          /\ pc' = IF ok THEN "autoconnect" ELSE "cleanup"
    /\ UNCHANGED <<fam, exit_requested, held, unit, stopFailed, dms,
                   model_id, powerVars, sessionVars>>

\* mm_configure_autoconnect_and_roaming: attach a WDS client without a
\* context, set autoconnect DISABLED / HOME_ONLY, detach it.
ConfigureAutoconnect == Proceed("autoconnect", "loop")

\* Mutant: the loop head does not test exit_requested.
LoopHeadIgnoringExit ==
    /\ pc = "loop"
    /\ \E ok \in BOOLEAN : pc' = IF ok THEN "stop_chrony" ELSE "cleanup"
    /\ UNCHANGED <<fam, exit_requested, held, hostVars, dms, model_id, powerVars,
                   sessionVars>>

(* The outer loop, main.c:836-942.                                          *)
LoopHead ==
    /\ pc = "loop"
    /\ IF exit_requested
         THEN pc' = "cleanup"
         ELSE \E ok \in BOOLEAN :            \* mm_netlink_reload_link_cache
                pc' = IF ok THEN "stop_chrony" ELSE "cleanup"
    /\ UNCHANGED <<fam, exit_requested, held, hostVars, dms, model_id, powerVars,
                   sessionVars>>

\* StopUnit before bring-up: a failure breaks out of the loop.
StopUnitBefore(u, from, to) ==
    /\ pc = from
    /\ \E ok \in BOOLEAN :
          /\ StopUnit(u, ok)
          /\ pc' = IF ok THEN to ELSE "cleanup"
    /\ UNCHANGED <<fam, exit_requested, held, link, dms, model_id, powerVars, sessionVars>>

EnsureLinkStep(l, up, from, to) ==
    /\ pc = from
    /\ \E ok \in BOOLEAN :
          /\ EnsureLink(l, up, ok)
          /\ pc' = IF ok THEN to ELSE "cleanup"
    /\ UNCHANGED <<fam, exit_requested, held, unit, stopFailed, dms,
                   model_id, powerVars, sessionVars>>

AddrFlush == Proceed("flush", "dms_init")

\* mm_dms_initialize: attach SWI-DMS, attach DMS, fetch the model id if not
\* cached; any failure detaches what was attached.
DmsInitialize ==
    /\ pc = "dms_init"
    /\ \/ /\ dms' = TRUE
          /\ model_id' \in IF model_id THEN {TRUE} ELSE BOOLEAN
          /\ pc' = "set_power"
       \/ /\ dms' = FALSE
          /\ UNCHANGED model_id
          /\ pc' = "cleanup"
    /\ UNCHANGED <<fam, exit_requested, held, hostVars, sessionVars, powerVars>>

\* What mm_dms_get_power_sync reports of the modem's state p: the mode when
\* its TLV (bit 1) is present, else INVALID; the lock when its TLV (bit 16)
\* is present, else FALSE.
PowerReports(p) ==
    {[mode |-> m, hw |-> h] : m \in {p.mode, "INVALID"}, h \in {p.hw, FALSE}}

\* The modem's state after it accepted SetPower(ONLINE): a hardware lock
\* keeps the mode it has.
PoweredOnline(p) == IF p.hw THEN p ELSE [p EXCEPT !.mode = "ONLINE"]

\* Where initialize() goes with the mode set_power_sync returned 0 with.
AfterSetPower(m) == IF m = "ONLINE" THEN "attach" ELSE "cleanup"

\* mm_dms_set_power_sync(ONLINE) and initialize()'s checks (main.c:878-888):
\* resulting_mode is INVALID until a GetPower answers.  The first GetPower
\* may fail; if it reports ONLINE or a lock, that mode is returned with
\* success and no write is made.  Otherwise SetPower is sent (a transport
\* error may come after the modem applied it; a TLV error is a refusal),
\* then read back: a failed read-back returns its error, a read-back other
\* than ONLINE returns GENERAL.  Any error, and a mode other than ONLINE,
\* breaks out of the loop with the DMS clients still attached.
DmsSetPower ==
    /\ pc = "set_power"
    /\ \/ /\ mode' = "INVALID" /\ pc' = "cleanup"     \* first GetPower fails
          /\ UNCHANGED power
       \/ \E r \in PowerReports(power) :
            \/ /\ r.mode = "ONLINE" \/ r.hw
               /\ mode' = r.mode /\ pc' = AfterSetPower(r.mode)
               /\ UNCHANGED power
            \/ /\ r.mode # "ONLINE" /\ ~r.hw
               /\ \/ /\ power' \in {power, PoweredOnline(power)}  \* set or read-back fails
                     /\ mode' = "INVALID" /\ pc' = "cleanup"
                  \/ /\ power' = PoweredOnline(power)
                     /\ \E b \in PowerReports(power') :
                          mode' = b.mode /\ pc' = AfterSetPower(b.mode)
    /\ UNCHANGED <<fam, exit_requested, held, hostVars, dms, model_id,
                   sessionVars>>

-----------------------------------------------------------------------------
(* Phase C: run_up_ipv6 (fam = "v6") and, nested in it, run_up_ipv4.       *)

\* Where run_up_<f> returns to: run_up_ipv4 returns into run_up_ipv6 at the
\* stop of the v6 session, run_up_ipv6 to initialize().
ReturnFrom(f) ==
    IF f = "v4" THEN pc' = "stop" /\ fam' = "v6"
                ELSE pc' = "dms_shutdown" /\ UNCHANGED fam

\* memset(&session, 0) and mm_wds_initialize(&session.wds, ctl, &session).
WdsInitialize ==
    /\ pc = "attach"
    /\ session_id' = [session_id EXCEPT ![fam] = 0]
    /\ teardown_requested' = [teardown_requested EXCEPT ![fam] = FALSE]
    /\ \/ /\ wds' = [wds EXCEPT ![fam] = TRUE]
          /\ pc' = "start"
          /\ UNCHANGED <<fam, exit_requested>>
       \/ /\ exit_requested' = TRUE
          /\ ReturnFrom(fam)
          /\ UNCHANGED wds
    /\ UNCHANGED <<held, hostVars, dms, model_id, powerVars, modem, inds>>

\* mm_start_session: set the IP family preference, then send
\* StartDataSession.  The modem refuses, or brings the session up and
\* queues a CONNECTED indication; the reply is handled by the next step.
StartSession ==
    /\ pc = "start"
    /\ \/ /\ pc' = "detach"                 \* preference or start refused
          /\ UNCHANGED <<modem, inds>>
       \/ /\ modem' = [modem EXCEPT ![fam] = "up"]
          /\ inds' = [inds EXCEPT ![fam] = Append(@, "up")]
          /\ pc' = "reply"
    /\ UNCHANGED <<fam, exit_requested, held, hostVars, dms, model_id, powerVars, wds,
                   session_id, teardown_requested>>

\* The main thread unpacks the StartDataSession response into
\* session->session_id (wds.c:306-333); a missing session id TLV or a
\* transport timeout fails the start although the modem session is up.
StartSessionReply ==
    /\ pc = "reply"
    /\ \/ /\ session_id' = [session_id EXCEPT ![fam] = 1]
          /\ pc' = "settings"
       \/ /\ UNCHANGED session_id
          /\ pc' = "detach"
    /\ UNCHANGED <<fam, exit_requested, held, hostVars, dms, model_id, powerVars, wds,
                   teardown_requested, modem, inds>>

\* Mutant: run_up_* goes on to apply settings whatever the reply, as if
\* the result of mm_wds_get_runtime_settings were not checked.
GetRuntimeSettingsUnchecked ==
    /\ pc = "settings"
    /\ pc' \in {"apply", "stop"}
    /\ UNCHANGED <<fam, exit_requested, held, hostVars, dms, model_id, powerVars,
                   sessionVars>>

\* mm_wds_get_runtime_settings and the address/gateway presence check.
\* The modem reports the settings of an active packet session only (spec.md,
\* Glossary, "Runtime settings"):
\* for a session it has already ended the request fails and the main
\* thread stops and releases it; for a live one a transport error or a
\* missing address or gateway does the same.
GetRuntimeSettings ==
    /\ pc = "settings"
    /\ \/ /\ modem[fam] = "up"
          /\ pc' \in {"apply", "stop"}
       \/ /\ modem[fam] # "up"
          /\ pc' = "stop"
    /\ UNCHANGED <<fam, exit_requested, held, hostVars, dms, model_id, powerVars,
                   sessionVars>>

\* mm_apply_ipv<f>_runtime_settings; on success run_up_ipv6 enters
\* run_up_ipv4, run_up_ipv4 starts unbound.  A failure requests exit.
ApplyRuntimeSettings ==
    /\ pc = "apply"
    /\ \/ /\ fam = "v6"
          /\ pc' = "attach" /\ fam' = "v4"
          /\ UNCHANGED exit_requested
       \/ /\ fam = "v4"
          /\ pc' = "start_unbound"
          /\ UNCHANGED <<fam, exit_requested>>
       \/ /\ exit_requested' = TRUE
          /\ pc' = "stop"
          /\ UNCHANGED fam
    /\ UNCHANGED <<held, hostVars, dms, model_id, powerVars, sessionVars>>

\* mm_sdbus_manage_service(bus, "StartUnit", u): a failure requests exit.
StartUnit(u, from, to) ==
    /\ pc = from
    /\ \/ /\ unit' = [unit EXCEPT ![u] = TRUE]
          /\ pc' = to
          /\ UNCHANGED exit_requested
       \/ /\ exit_requested' = TRUE
          /\ pc' = "stop"
          /\ UNCHANGED unit
    /\ UNCHANGED <<fam, held, link, stopFailed, dms, model_id, powerVars, sessionVars>>

\* Mutant: a failed setconf does not stop the chain.
WireguardUpIgnoringSetconf ==
    /\ pc = "wg_up"
    /\ \/ /\ UNCHANGED link /\ pc' = "start_chrony"
       \/ /\ link' = [link EXCEPT !["wg0"] = TRUE] /\ pc' \in {"stop", "start_chrony"}
    /\ UNCHANGED <<fam, exit_requested, held, unit, stopFailed, dms,
                   model_id, powerVars, sessionVars>>

\* mm_exec_wireguard_setconf() || ensure wg0 up || ensure wg0 routes: the
\* chain stops at the first failure and does not request exit.
WireguardUp ==
    /\ pc = "wg_up"
    /\ \/ /\ UNCHANGED link /\ pc' = "stop"                 \* setconf/up fail
       \/ /\ link' = [link EXCEPT !["wg0"] = TRUE] /\ pc' = "stop" \* routes
       \/ /\ link' = [link EXCEPT !["wg0"] = TRUE] /\ pc' = "start_chrony"
    /\ UNCHANGED <<fam, exit_requested, held, unit, stopFailed, dms,
                   model_id, powerVars, sessionVars>>

\* Mutant: the monitor tests session_v4's flag twice, not session_v6's.
RunSessionsUpV4Only ==
    /\ pc = "monitor"
    /\ exit_requested \/ teardown_requested["v4"]
    /\ pc' = "stop"
    /\ UNCHANGED <<fam, exit_requested, held, hostVars, dms, model_id, powerVars,
                   sessionVars>>

\* run_sessions_up: sleep while no exit and no teardown is requested.
RunSessionsUp ==
    /\ pc = "monitor"
    /\ exit_requested \/ \E f \in Fam : teardown_requested[f]
    /\ pc' = "stop"
    /\ UNCHANGED <<fam, exit_requested, held, hostVars, dms, model_id, powerVars,
                   sessionVars>>

\* mm_wds_stop_data_session; NO_EFFECT (the session already ended) is
\* tolerated, any other failure requests exit.
StopDataSession ==
    /\ pc = "stop"
    /\ \/ /\ modem[fam] = "up"
          /\ modem' = [modem EXCEPT ![fam] = "hostEnded"]
          /\ inds' = [inds EXCEPT ![fam] = Append(@, "hostEnd")]
          /\ UNCHANGED exit_requested
       \/ /\ modem[fam] # "up"                 \* QMI_NO_EFFECT
          /\ UNCHANGED <<modem, inds, exit_requested>>
       \/ /\ exit_requested' = TRUE            \* transport failure
          /\ UNCHANGED <<modem, inds>>
    /\ pc' = "detach"
    /\ UNCHANGED <<fam, held, hostVars, dms, model_id, powerVars, wds, session_id,
                   teardown_requested>>

\* Mutant: run_up_ipv4 returns without mm_wds_shutdown.
WdsShutdownSkippedForV4 ==
    /\ pc = "detach"
    /\ wds' = IF fam = "v4" THEN wds ELSE [wds EXCEPT ![fam] = FALSE]
    /\ modem' = [modem EXCEPT ![fam] = "none"]
    /\ inds' = [inds EXCEPT ![fam] = <<>>]
    /\ \E ok \in BOOLEAN :
          exit_requested' = (exit_requested \/ ~ok)
    /\ ReturnFrom(fam)
    /\ UNCHANGED <<held, hostVars, dms, model_id, powerVars, session_id,
                   teardown_requested>>

\* mm_wds_shutdown: the client is released, with it its session on the
\* modem and its undelivered indications; a failure requests exit.
WdsShutdown ==
    /\ pc = "detach"
    /\ wds' = [wds EXCEPT ![fam] = FALSE]
    /\ modem' = [modem EXCEPT ![fam] = "none"]
    /\ inds' = [inds EXCEPT ![fam] = <<>>]
    /\ \E ok \in BOOLEAN :
          exit_requested' = (exit_requested \/ ~ok)
    /\ ReturnFrom(fam)
    /\ UNCHANGED <<held, hostVars, dms, model_id, powerVars, session_id,
                   teardown_requested>>

-----------------------------------------------------------------------------
(* Teardown of one loop iteration, main.c:893-941.                         *)

\* mm_dms_shutdown(&dms, ctl, exit_requested): both clients are detached,
\* the model id is freed when exiting; a failure breaks out of the loop.
DmsShutdown ==
    /\ pc = "dms_shutdown"
    /\ dms' = FALSE
    /\ model_id' = (model_id /\ ~exit_requested)
    /\ pc' \in {"reload", "cleanup"}
    /\ UNCHANGED <<fam, exit_requested, held, hostVars, sessionVars, powerVars>>

ReloadLinkCache == Proceed("reload", "wwan_down")

\* StopUnit after teardown: a failure requests exit but does not break.
StopUnitAfter(u, from, to) ==
    /\ pc = from
    /\ \E ok \in BOOLEAN :
          /\ StopUnit(u, ok)
          /\ exit_requested' = (exit_requested \/ ~ok)
    /\ pc' = to
    /\ UNCHANGED <<fam, held, link, dms, model_id, powerVars, sessionVars>>

-----------------------------------------------------------------------------
(* The other threads and the environment.                                  *)

\* handle_signal(SIGINT).
HandleSignal ==
    /\ pc # "done"
    /\ ~exit_requested
    /\ exit_requested' = TRUE
    /\ UNCHANGED <<pc, fam, held, hostVars, dms, model_id, powerVars, sessionVars>>

\* The network ends a live session; the modem queues a DISCONNECTED
\* indication with a non-client end reason.
NetworkEndsSession(f) ==
    /\ modem[f] = "up"
    /\ modem' = [modem EXCEPT ![f] = "netEnded"]
    /\ inds' = [inds EXCEPT ![f] = Append(@, "netEnd")]
    /\ UNCHANGED <<pc, fam, exit_requested, held, hostVars, dms, model_id, powerVars,
                   wds, session_id, teardown_requested>>

\* wds_indication_callback on the reader thread, for the oldest queued
\* indication of session f, reading session_id concurrently with the main
\* thread.
WdsIndicationCallback(f) ==
    /\ inds[f] # <<>>
    /\ \E r \in ModemRecords(Head(inds[f])) :
          teardown_requested' = [teardown_requested EXCEPT ![f] =
                                    @ \/ RequestsTeardown(r, session_id[f])]
    /\ inds' = [inds EXCEPT ![f] = Tail(@)]
    /\ UNCHANGED <<pc, fam, exit_requested, held, hostVars, dms, model_id, powerVars,
                   wds, session_id, modem>>

\* The process has exited.
Terminated ==
    /\ pc = "done"
    /\ UNCHANGED vars

-----------------------------------------------------------------------------
MainThread ==
    \/ MainStartup
    \/ EnsureWg0DownInitially
    \/ ConfigureAutoconnect
    \/ LoopHead
    \/ StopUnitBefore("chrony", "stop_chrony", "stop_unbound")
    \/ StopUnitBefore("unbound", "stop_unbound", "wwan_up")
    \/ EnsureLinkStep("wwan", TRUE, "wwan_up", "flush")
    \/ AddrFlush
    \/ DmsInitialize
    \/ DmsSetPower
    \/ WdsInitialize
    \/ StartSession
    \/ StartSessionReply
    \/ GetRuntimeSettings
    \/ ApplyRuntimeSettings
    \/ StartUnit("unbound", "start_unbound", "wg_up")
    \/ WireguardUp
    \/ StartUnit("chrony", "start_chrony", "monitor")
    \/ RunSessionsUp
    \/ StopDataSession
    \/ WdsShutdown
    \/ DmsShutdown
    \/ ReloadLinkCache
    \/ EnsureLinkStep("wwan", FALSE, "wwan_down", "wg0_down")
    \/ EnsureLinkStep("wg0", FALSE, "wg0_down", "stop_chrony2")
    \/ StopUnitAfter("chrony", "stop_chrony2", "stop_unbound2")
    \/ StopUnitAfter("unbound", "stop_unbound2", "loop")
    \/ MainShutdown

Next ==
    \/ MainThread
    \/ HandleSignal
    \/ \E f \in Fam : NetworkEndsSession(f) \/ WdsIndicationCallback(f)
    \/ Terminated

\* The main thread never blocks for good (every QMI request has a timeout,
\* the sleeps end) and the reader thread delivers every queued indication;
\* the signal and the network are not obliged to act.
Fairness ==
    /\ WF_vars(MainThread)
    /\ \A f \in Fam : WF_vars(WdsIndicationCallback(f))

Spec == Init /\ [][Next]_vars /\ Fairness

-----------------------------------------------------------------------------
(* Properties.                                                             *)

TypeOK ==
    /\ pc \in MainPCs
    /\ fam \in Fam
    /\ exit_requested \in BOOLEAN
    /\ held \in SUBSET Resources
    /\ link \in [Links -> BOOLEAN]
    /\ unit \in [Units -> BOOLEAN]
    /\ stopFailed \in [Units -> BOOLEAN]
    /\ dms \in BOOLEAN
    /\ model_id \in BOOLEAN
    /\ wds \in [Fam -> BOOLEAN]
    /\ session_id \in [Fam -> {0, 1}]
    /\ teardown_requested \in [Fam -> BOOLEAN]
    /\ modem \in [Fam -> ModemStates]
    /\ inds \in [Fam -> Seq(IndKinds)]
    /\ power \in [mode : OpModes, hw : BOOLEAN]
    /\ mode \in OpModes \cup {"INVALID"}

\* The indication callback asks the main thread to tear a session down only
\* when the network really ended it: never for the CONNECTED indication of
\* a new session, and never for the DISCONNECTED indication the modem sends
\* after the host's own StopDataSession (wds.c:484-490, spec S3).
TeardownOnlyOnNetworkEnd ==
    \A f \in Fam : wds[f] /\ teardown_requested[f] => modem[f] = "netEnded"

\* The WDS clients are scoped by run_up_ipv6 / run_up_ipv4 on every path:
\* the v4 client exists only inside an established v6 session, and no
\* client outlives Phase C (main.c:1019-1189).
SessionNesting ==
    /\ wds["v4"] => wds["v6"] /\ session_id["v6"] # 0
    /\ pc \notin SessionPCs => \A f \in Fam : ~wds[f]

\* chrony is started last: only with unbound running, the tunnel link up
\* and both packet sessions established (main.c:1056-1083, spec 8.2).
ChronyStartOrder ==
    [][~unit["chrony"] /\ unit'["chrony"] =>
          /\ unit["unbound"] /\ link["wg0"]
          /\ \A f \in Fam : wds[f] /\ session_id[f] # 0]_vars

\* A session whose teardown was requested is eventually stopped and its
\* client released (run_sessions_up returns, main.c:1097-1114, 1169-1186).
TeardownLeadsToRelease ==
    \A f \in Fam : (wds[f] /\ teardown_requested[f]) ~> ~wds[f]

\* After SIGINT (or a host fault) the daemon eventually exits: every wait
\* in the loop observes exit_requested (main.c:836, 939, 1193).
ExitLeadsToTermination ==
    exit_requested ~> pc = "done"

\* A session the network ended is eventually released (spec 4.3, 8.5,
\* scenario S2), although the reader thread drops a DISCONNECTED that it
\* handles before the main thread stored session_id (wds.c:484): the
\* runtime-settings request that follows then fails and run_up_* stops and
\* releases the session.
NetworkEndLeadsToRelease ==
    \A f \in Fam : (wds[f] /\ modem[f] = "netEnded") ~> ~wds[f]

\* No QMI service client is attached when the CtlService is shut down
\* (spec 3 and 4.1: a service outliving the transport is a bug).
ServicesDetachedAtCtlShutdown ==
    "ctl" \notin held => ~dms /\ \A f \in Fam : ~wds[f]

\* When the process exits, every unit it started has been stopped, unless
\* the last attempt to stop it failed (spec 7: every error path runs the
\* cleanup of what it acquired).
UnitsStoppedAtExit ==
    pc = "done" => \A u \in Units : unit[u] => stopFailed[u]

\* Spec 5 (resource policy) and 8.1 (resource balance): every exit path
\* releases what it acquired, so no service client outlives the
\* CtlService and no started unit outlives the process.
ResourcesReleasedOnExitPaths ==
    ServicesDetachedAtCtlShutdown /\ UnitsStoppedAtExit

\* Spec S4 and section 7 (ModeRefused): when the modem holds a mode other
\* than ONLINE under a hardware lock, the iteration is abandoned and the
\* supervisor sleeps and retries; it does not exit on it unless exit is
\* requested.  Here set_power_sync has returned such a mode (main.c:884).
ModeRefusalRetried ==
    mode = "LOW_POWER" ~> (pc = "loop" \/ exit_requested)

=============================================================================
