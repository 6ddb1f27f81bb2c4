----------------------------- MODULE WwanNetlink -----------------------------
(***************************************************************************)
(* The netlink side of modem-monitor: what main() and initialize() (the    *)
(* second half of src/src/netlink.c) do to the WWAN host interface         *)
(* mhi_hwip0 through the mm_netlink layer (the first half of that file)    *)
(* and mm_apply_ipv{4,6}_runtime_settings (src/unnamed/part_007), against  *)
(* the kernel's state of that interface.                                   *)
(*                                                                         *)
(* The kernel holds the link's IFF_UP flag, the addresses on the link and  *)
(* the default routes through it.  The program sees the flag only through  *)
(* its link cache, refilled by mm_netlink_reload_link_cache, and sees the  *)
(* addresses through the address cache, refilled at the start of           *)
(* mm_netlink_addr_flush.  The flush deletes the collected addresses one   *)
(* netlink request at a time, so the kernel may change between two of its  *)
(* requests.  The QMI and sd-bus calls between the netlink calls (modelled *)
(* in Supervisor) appear here only through their outcome: go on or break.  *)
(***************************************************************************)
EXTENDS Integers, FiniteSets

CONSTANTS
    V4Addrs,          \* IPv4 addresses that can be on the link
    V6Addrs,          \* IPv6 addresses that can be on the link
    LinkLocal,        \* the IPv6 link-scope ones (RT_SCOPE_LINK)
    MaxNetlinkAddrs,  \* MAX_NETLINK_ADDRS, capacity of mm_netlink_addrs
    DeleteMayFail     \* whether rtnl_addr_delete may fail on a present address

ASSUME AddrsAssumption ==
    /\ V4Addrs \cap V6Addrs = {}
    /\ LinkLocal \subseteq V6Addrs
    /\ MaxNetlinkAddrs \in Nat \ {0}
    /\ DeleteMayFail \in BOOLEAN

Fam == {"v4", "v6"}
Addrs == V4Addrs \cup V6Addrs
FamilyAddrs(f) == IF f = "v4" THEN V4Addrs ELSE V6Addrs
NonLink == Addrs \ LinkLocal    \* what a session can be given
NoAddr == "none"                \* runtime settings not read yet

VARIABLES
    pc,         \* program point of the main thread
    exitReq,    \* exit_requested
    kUp,        \* kernel: IFF_UP of mhi_hwip0
    cUp,        \* IFF_UP as recorded in the cached wwan_link_v4 object
    kAddrs,     \* kernel: addresses on mhi_hwip0
    routes,     \* kernel: families with a default route through mhi_hwip0
    pending,    \* addrs.list[i .. allocated-1] of a running addr_flush
    status,     \* the status variable of mm_netlink_addr_flush
    flushRet,   \* the call site of the running flush: loop or main()
    settings    \* last_runtime_settings.address of each session

vars == <<pc, exitReq, kUp, cUp, kAddrs, routes, pending, status,
          flushRet, settings>>

PCs == {"init", "bus", "setup", "loop", "reload_top", "stop_units",
        "ensure_up", "flush", "flush_delete", "dms", "sess_v6", "apply_v6",
        "sess_v4", "apply_v4", "running", "dms_shutdown", "reload_down",
        "ensure_down", "teardown_rest", "cleanup_reload", "cleanup_ensure",
        "done"}

TypeOK ==
    /\ pc \in PCs
    /\ exitReq \in BOOLEAN /\ kUp \in BOOLEAN /\ cUp \in BOOLEAN
    /\ kAddrs \subseteq Addrs
    /\ routes \subseteq Fam
    /\ pending \subseteq NonLink
    /\ status \in {0, -1}
    /\ flushRet \in {"loop", "main"}
    /\ settings \in [Fam -> NonLink \cup {NoAddr}]

\* The program starts against any kernel state in which link-scope IPv6
\* addresses exist only on an up link; its caches are not loaded yet.
Init ==
    /\ pc = "init"
    /\ exitReq = FALSE
    /\ kUp \in BOOLEAN /\ cUp = FALSE
    /\ kAddrs \in {S \in SUBSET Addrs : ~kUp => S \cap LinkLocal = {}}
    /\ routes = {}
    /\ pending = {} /\ status = 0 /\ flushRet = "loop"
    /\ settings = [f \in Fam |-> NoAddr]

-----------------------------------------------------------------------------
(* Kernel semantics the program relies on: putting the link down removes  *)
(* its IPv6 addresses and the routes through it; IPv4 addresses stay.      *)
LinkGoesDown ==
    /\ kUp' = FALSE
    /\ kAddrs' = kAddrs \ V6Addrs
    /\ routes' = {}

\* One call into a collaborator outside netlink that either lets the code
\* go on or makes it break out to failTo.
Call(from, to, failTo) ==
    /\ pc = from
    /\ pc' \in {to, failTo}
    /\ UNCHANGED <<exitReq, kUp, cUp, kAddrs, routes, pending, status,
                   flushRet, settings>>

\* mm_netlink_initialize: allocate the socket and the caches, look up the
\* links; any failure makes main() skip everything netlink, cleanup included.
NetlinkInitialize ==
    /\ pc = "init"
    /\ \/ pc' = "bus" /\ cUp' = kUp
       \/ pc' = "done" /\ UNCHANGED cUp
    /\ UNCHANGED <<exitReq, kUp, kAddrs, routes, pending, status, flushRet,
                   settings>>

\* mm_netlink_reload_link_cache: refill the link caches and look the links
\* up again; a refill error or a missing link is returned.
ReloadLinkCache(from, to, failTo) ==
    /\ pc = from
    /\ \/ pc' = to /\ cUp' = kUp
       \/ pc' = failTo /\ UNCHANGED cUp
    /\ UNCHANGED <<exitReq, kUp, kAddrs, routes, pending, status, flushRet,
                   settings>>

\* Mutant: the request_up == false branch left out, so a down request never
\* reaches the kernel.
EnsureInterfaceStateUpOnly(from, requestUp, to, failTo) ==
    /\ pc = from
    /\ IF requestUp = cUp \/ ~requestUp
         THEN pc' = to /\ UNCHANGED <<kUp, kAddrs, routes>>
         ELSE \/ pc' = failTo /\ UNCHANGED <<kUp, kAddrs, routes>>
              \/ pc' = to /\ kUp' = TRUE /\ UNCHANGED <<kAddrs, routes>>
    /\ UNCHANGED <<exitReq, cUp, pending, status, flushRet, settings>>

\* ensure_interface_state: compare the request with the CACHED flag; only
\* if they differ allocate a change object and send rtnl_link_change.  The
\* change does not update the cached link.
EnsureInterfaceState(from, requestUp, to, failTo) ==
    /\ pc = from
    /\ IF requestUp = cUp
         THEN pc' = to /\ UNCHANGED <<kUp, kAddrs, routes>>
         ELSE \/ pc' = failTo /\ UNCHANGED <<kUp, kAddrs, routes>>
              \/ /\ pc' = to
                 /\ IF requestUp THEN kUp' = TRUE /\ UNCHANGED <<kAddrs, routes>>
                                 ELSE LinkGoesDown
    /\ UNCHANGED <<exitReq, cUp, pending, status, flushRet, settings>>

\* collect_nonlink_addrs over the cache filtered to one family.
NonlinkAddrs(cache, f) == {a \in cache \cap FamilyAddrs(f) : a \notin LinkLocal}

\* Where the code goes when mm_netlink_addr_flush returns st to the call
\* site ret: in the loop a failure breaks out to main()'s cleanup; in that
\* cleanup the || chain stops at the first failure.
AfterFlush(ret, st) ==
    IF ret = "loop" THEN IF st = 0 THEN "dms" ELSE "cleanup"
                    ELSE IF st = 0 THEN "cleanup_reload" ELSE "done"

\* Mutant: the AF_INET6 pass of the collection left out.
FlushCollectV4Only ==
    /\ pc \in {"flush", "cleanup"}
    /\ flushRet' = IF pc = "flush" THEN "loop" ELSE "main"
    /\ \/ /\ status' = -1
          /\ pc' = AfterFlush(flushRet', -1)
          /\ UNCHANGED pending
       \/ LET coll == NonlinkAddrs(kAddrs, "v4")
          IN /\ pc' = "flush_delete"
             /\ IF Cardinality(coll) <= MaxNetlinkAddrs
                  THEN pending' = coll /\ status' = 0
                  ELSE /\ pending' \in {S \in SUBSET coll :
                                          Cardinality(S) = MaxNetlinkAddrs}
                       /\ status' = -1
    /\ UNCHANGED <<exitReq, kUp, cUp, kAddrs, routes, settings>>

\* mm_netlink_addr_flush, first part, called from the loop ("flush") or
\* from main() ("cleanup"): refill the address cache (its error is returned
\* at once), collect the AF_INET then the AF_INET6 non-link addresses; past
\* MAX_NETLINK_ADDRS only the first ones are kept and status is set to -1.
FlushCollect ==
    /\ pc \in {"flush", "cleanup"}
    /\ flushRet' = IF pc = "flush" THEN "loop" ELSE "main"
    /\ \/ /\ status' = -1
          /\ pc' = AfterFlush(flushRet', -1)
          /\ UNCHANGED pending
       \/ LET coll == NonlinkAddrs(kAddrs, "v4") \cup NonlinkAddrs(kAddrs, "v6")
          IN /\ pc' = "flush_delete"
             /\ IF Cardinality(coll) <= MaxNetlinkAddrs
                  THEN pending' = coll /\ status' = 0
                  ELSE /\ pending' \in {S \in SUBSET coll :
                                          Cardinality(S) = MaxNetlinkAddrs}
                       /\ status' = -1
    /\ UNCHANGED <<exitReq, kUp, cUp, kAddrs, routes, settings>>

\* One iteration of the delete loop: status is overwritten by the result
\* of every rtnl_addr_delete.  Deleting an address the kernel no longer
\* has fails; deleting a present one may fail when DeleteMayFail.
FlushDelete ==
    /\ pc = "flush_delete"
    /\ \E a \in pending :
          /\ pending' = pending \ {a}
          /\ \/ /\ a \in kAddrs
                /\ kAddrs' = kAddrs \ {a}
                /\ status' = 0
             \/ /\ a \notin kAddrs \/ DeleteMayFail
                /\ status' = -1
                /\ UNCHANGED kAddrs
    /\ UNCHANGED <<pc, exitReq, kUp, cUp, routes, flushRet, settings>>

\* The loop is done: return the status of the last request.
FlushReturn ==
    /\ pc = "flush_delete"
    /\ pending = {}
    /\ pc' = AfterFlush(flushRet, status)
    /\ UNCHANGED <<exitReq, kUp, cUp, kAddrs, routes, pending, status,
                   flushRet, settings>>

\* mm_wds_get_runtime_settings and the calls before it in run_up_ipv6 /
\* run_up_ipv4 (WDS client, session start): on success the modem's address
\* for the family is recorded; a failure tears the sessions down, and
\* requests exit when it was the WDS client that could not be set up.
GetRuntimeSettings(f, from, to) ==
    /\ pc = from
    /\ \/ /\ pc' = to
          /\ \E a \in NonLink \cap FamilyAddrs(f) : settings' = [settings EXCEPT ![f] = a]
          /\ UNCHANGED exitReq
       \/ /\ pc' = "dms_shutdown"
          /\ exitReq' \in {exitReq, TRUE}
          /\ UNCHANGED settings
    /\ UNCHANGED <<kUp, cUp, kAddrs, routes, pending, status, flushRet>>

\* mm_netlink_add_v{4,6}_address: rtnl_addr_add with flags 0 (NLM_F_CREATE
\* without NLM_F_REPLACE), which the kernel refuses with EEXIST for an
\* address the link already has.
AddAddressSucceeds(a) == a \notin kAddrs

\* mm_netlink_change_v{4,6}_default_gateway: rtnl_route_add of the default
\* route through the preallocated next hop, NLM_F_CREATE | NLM_F_REPLACE;
\* the kernel refuses a gateway route through a link that is down.
ChangeDefaultGatewaySucceeds == kUp

\* mm_apply_ipv{4,6}_runtime_settings(.., refresh = FALSE): add the address
\* with rtnl_addr_add (flags 0, so the kernel refuses an address it already
\* has), then add the default route with NLM_F_CREATE | NLM_F_REPLACE (the
\* kernel refuses a gateway route on a link that is down).  A failed
\* apply requests exit and tears the sessions down.
ApplyRuntimeSettings(f, from, to) ==
    LET a == settings[f] IN
    /\ pc = from
    /\ \/ /\ AddAddressSucceeds(a) /\ ChangeDefaultGatewaySucceeds
          /\ kAddrs' = kAddrs \cup {a}
          /\ routes' = routes \cup {f}
          /\ pc' = to
          /\ UNCHANGED exitReq
       \/ /\ ~AddAddressSucceeds(a) \/ ~ChangeDefaultGatewaySucceeds
          /\ kAddrs' = kAddrs \cup {a}
          /\ UNCHANGED routes
          /\ pc' = "dms_shutdown"
          /\ exitReq' = TRUE
    /\ UNCHANGED <<kUp, cUp, pending, status, flushRet, settings>>

\* The head of initialize()'s while (!exit_requested) loop.
LoopHead ==
    /\ pc = "loop"
    /\ pc' = IF exitReq THEN "cleanup" ELSE "reload_top"
    /\ UNCHANGED <<exitReq, kUp, cUp, kAddrs, routes, pending, status,
                   flushRet, settings>>

\* run_sessions_up returns when a session ends or exit is requested; a
\* failing StartUnit on the way there requests exit as well.
SessionEnds ==
    /\ pc = "running"
    /\ pc' = "dms_shutdown"
    /\ exitReq' \in {exitReq, TRUE}
    /\ UNCHANGED <<kUp, cUp, kAddrs, routes, pending, status, flushRet,
                   settings>>

\* The end of the loop body: wg0 down (a failure breaks), then StopUnit
\* chrony and unbound (a failure requests exit).
TeardownRest ==
    /\ pc = "teardown_rest"
    /\ pc' \in {"loop", "cleanup"}
    /\ exitReq' \in {exitReq, TRUE}
    /\ UNCHANGED <<kUp, cUp, kAddrs, routes, pending, status, flushRet,
                   settings>>

-----------------------------------------------------------------------------
(* The environment: SIGINT, and the link changing under the program (the  *)
(* MHI device resetting, an administrator), with IPv6 autoconfiguration   *)
(* giving an up link its link-local address.                               *)
HandleSignal ==
    /\ pc # "done" /\ ~exitReq
    /\ exitReq' = TRUE
    /\ UNCHANGED <<pc, kUp, cUp, kAddrs, routes, pending, status, flushRet,
                   settings>>

LinkChangesExternally ==
    /\ pc # "done"
    /\ IF kUp THEN LinkGoesDown ELSE kUp' = TRUE /\ UNCHANGED <<kAddrs, routes>>
    /\ UNCHANGED <<pc, exitReq, cUp, pending, status, flushRet, settings>>

AddrconfLinkLocal ==
    /\ pc # "done" /\ kUp
    /\ \E a \in LinkLocal \ kAddrs : kAddrs' = kAddrs \cup {a}
    /\ UNCHANGED <<pc, exitReq, kUp, cUp, routes, pending, status, flushRet,
                   settings>>

Terminated ==
    /\ pc = "done"
    /\ UNCHANGED vars

MainThread ==
    \/ NetlinkInitialize
    \/ Call("bus", "setup", "cleanup")
    \/ Call("setup", "loop", "cleanup")
    \/ LoopHead
    \/ ReloadLinkCache("reload_top", "stop_units", "cleanup")
    \/ Call("stop_units", "ensure_up", "cleanup")
    \/ EnsureInterfaceState("ensure_up", TRUE, "flush", "cleanup")
    \/ FlushCollect \/ FlushDelete \/ FlushReturn
    \/ Call("dms", "sess_v6", "cleanup")
    \/ GetRuntimeSettings("v6", "sess_v6", "apply_v6")
    \/ ApplyRuntimeSettings("v6", "apply_v6", "sess_v4")
    \/ GetRuntimeSettings("v4", "sess_v4", "apply_v4")
    \/ ApplyRuntimeSettings("v4", "apply_v4", "running")
    \/ SessionEnds
    \/ Call("dms_shutdown", "reload_down", "cleanup")
    \/ ReloadLinkCache("reload_down", "ensure_down", "cleanup")
    \/ EnsureInterfaceState("ensure_down", FALSE, "teardown_rest", "cleanup")
    \/ TeardownRest
    \/ ReloadLinkCache("cleanup_reload", "cleanup_ensure", "done")
    \/ EnsureInterfaceState("cleanup_ensure", FALSE, "done", "done")

Next ==
    \/ MainThread
    \/ HandleSignal \/ LinkChangesExternally \/ AddrconfLinkLocal
    \/ Terminated

Spec == Init /\ [][Next]_vars

-----------------------------------------------------------------------------
(* Properties.                                                             *)

\* The loop comment "Put WWAN host interface up; ensure that it has no
\* addresses": once both sessions are up and their settings applied, the
\* link carries no non-link address besides the two the modem handed out,
\* whatever the link held when the program started or the last run left.
StaleAddressFree ==
    pc = "running" => kAddrs \cap NonLink \subseteq {settings["v4"], settings["v6"]}

\* ensure_interface_state(.., FALSE) in the loop's teardown ("put the WWAN
\* host ... down to kill routing"): when it reports success, no default
\* route through the WWAN link is left, although it decided from the link
\* cache rather than from the kernel.
RoutingKilledAtTeardown ==
    [][pc = "ensure_down" /\ pc' = "teardown_rest" => routes' = {}]_vars

====
