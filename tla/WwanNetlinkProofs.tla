-------------------------- MODULE WwanNetlinkProofs ---------------------------
(***************************************************************************)
(* Proofs about the flush of mhi_hwip0 (WwanNetlink): when every delete of *)
(* an address the link still has succeeds and the link's non-link          *)
(* addresses fit in MAX_NETLINK_ADDRS, the sessions run with no address    *)
(* on the link besides the two the modem handed out, for every set of     *)
(* addresses, whatever the link held at start and however it changes      *)
(* during the flush.  The run netlink_flush_clean checks the same on four  *)
(* addresses; the run flush_masked shows that without either condition it *)
(* fails, because mm_netlink_addr_flush returns the status of the last     *)
(* delete only.  The second part proves, with no condition, that the      *)
(* teardown's down request leaves no default route through the link.      *)
(***************************************************************************)
EXTENDS WwanNetlink, FiniteSetTheorems, TLAPS

\* The conditions of the clean run: rtnl_addr_delete does not fail on an
\* address the link has, and collect_nonlink_addrs never runs out of room.
CleanFlush ==
    /\ ~DeleteMayFail
    /\ IsFiniteSet(NonLink)
    /\ Cardinality(NonLink) <= MaxNetlinkAddrs

\* What the main thread knows of the link's non-link addresses from the
\* loop's flush on: while the deletes run, each such address is still to be
\* deleted; from the flush's success until the v6 session's settings are
\* applied there are none; then at most the v6 address, then at most the
\* two session addresses.  The kernel may remove addresses at any time and
\* adds only link-scope ones by itself.  The session settings are recorded
\* per family.
FlushInv ==
    /\ settings \in [Fam -> NonLink \cup {NoAddr}]
    /\ pc = "flush_delete" /\ flushRet = "loop" => kAddrs \cap NonLink \subseteq pending
    /\ pc \in {"dms", "sess_v6", "apply_v6"} => kAddrs \cap NonLink = {}
    /\ pc \in {"sess_v4", "apply_v4"} => kAddrs \cap NonLink \subseteq {settings["v6"]}
    /\ pc = "running" => kAddrs \cap NonLink \subseteq {settings["v4"], settings["v6"]}

\* The points FlushInv speaks of.
Watched == {"flush_delete", "dms", "sess_v6", "apply_v6", "sess_v4",
            "apply_v4", "running"}

LEMMA InitFlushInv == Init => FlushInv
BY DEF Init, FlushInv, NoAddr

\* The collection takes every non-link address of the link when they fit.
LEMMA CollectTakesAll ==
  ASSUME CleanFlush
  PROVE  LET coll == NonlinkAddrs(kAddrs, "v4") \cup NonlinkAddrs(kAddrs, "v6")
         IN  /\ kAddrs \cap NonLink \subseteq coll
             /\ Cardinality(coll) <= MaxNetlinkAddrs
<1> DEFINE coll == NonlinkAddrs(kAddrs, "v4") \cup NonlinkAddrs(kAddrs, "v6")
<1>1. kAddrs \cap NonLink \subseteq coll
  BY DEF NonlinkAddrs, FamilyAddrs, NonLink, Addrs
<1>2. coll \subseteq NonLink
  BY DEF NonlinkAddrs, FamilyAddrs, NonLink, Addrs
<1>3. Cardinality(coll) <= Cardinality(NonLink) /\ Cardinality(coll) \in Nat
  BY <1>2, FS_Subset, FS_CardinalityType DEF CleanFlush
<1>4. Cardinality(NonLink) \in Nat /\ MaxNetlinkAddrs \in Nat
  BY FS_CardinalityType, AddrsAssumption DEF CleanFlush
<1> QED
  BY <1>1, <1>3, <1>4 DEF CleanFlush

\* Every step keeps FlushInv.  Only the flush, the session steps and the
\* kernel's own changes touch the link's addresses at the watched points;
\* every other step starts and ends outside them.
LEMMA FlushInvStep ==
  ASSUME CleanFlush
  PROVE  FlushInv /\ [Next]_vars => FlushInv'
<1> SUFFICES ASSUME FlushInv, [Next]_vars PROVE FlushInv'
  OBVIOUS
<1> USE DEF FlushInv
<1>1. CASE FlushCollect
  <2>1. CASE pc = "flush" /\ pc' = "flush_delete"
    <3> DEFINE coll == NonlinkAddrs(kAddrs, "v4") \cup NonlinkAddrs(kAddrs, "v6")
    <3>1. kAddrs \cap NonLink \subseteq coll /\ Cardinality(coll) <= MaxNetlinkAddrs
      BY CollectTakesAll
    <3>2. /\ pending' = coll /\ flushRet' = "loop"
          /\ UNCHANGED <<kAddrs, settings>>
      BY <1>1, <2>1, <3>1 DEF FlushCollect, AfterFlush
    <3> QED
      BY <2>1, <3>1, <3>2
  <2>2. CASE ~(pc = "flush" /\ pc' = "flush_delete")
    <3>1. pc' \notin Watched \/ (pc' = "flush_delete" /\ flushRet' = "main")
      BY <1>1, <2>2 DEF FlushCollect, AfterFlush, Watched
    <3>2. pc \notin Watched /\ UNCHANGED settings
      BY <1>1 DEF FlushCollect, Watched
    <3> QED
      BY <3>1, <3>2 DEF Watched
  <2> QED
    BY <2>1, <2>2
<1>2. CASE FlushDelete
  <2>1. PICK a \in pending :
          /\ pending' = pending \ {a}
          /\ \/ a \in kAddrs /\ kAddrs' = kAddrs \ {a}
             \/ a \notin kAddrs /\ kAddrs' = kAddrs
    BY <1>2 DEF FlushDelete, CleanFlush
  <2> QED
    BY <1>2, <2>1 DEF FlushDelete
<1>3. CASE FlushReturn
  BY <1>3 DEF FlushReturn, AfterFlush
<1>4. CASE GetRuntimeSettings("v6", "sess_v6", "apply_v6")
        \/ GetRuntimeSettings("v4", "sess_v4", "apply_v4")
  BY <1>4 DEF GetRuntimeSettings, Fam
<1>5. CASE ApplyRuntimeSettings("v6", "apply_v6", "sess_v4")
  BY <1>5 DEF ApplyRuntimeSettings
<1>6. CASE ApplyRuntimeSettings("v4", "apply_v4", "running")
  BY <1>6 DEF ApplyRuntimeSettings
<1>7. CASE Call("dms", "sess_v6", "cleanup")
  BY <1>7 DEF Call
<1>8. CASE LinkChangesExternally
  BY <1>8 DEF LinkChangesExternally, LinkGoesDown
<1>9. CASE AddrconfLinkLocal
  BY <1>9 DEF AddrconfLinkLocal, NonLink
<1>10. CASE HandleSignal \/ Terminated \/ UNCHANGED vars
  BY <1>10 DEF HandleSignal, Terminated, vars
<1>11. CASE \/ NetlinkInitialize
            \/ Call("bus", "setup", "cleanup")
            \/ Call("setup", "loop", "cleanup")
            \/ LoopHead
            \/ ReloadLinkCache("reload_top", "stop_units", "cleanup")
            \/ Call("stop_units", "ensure_up", "cleanup")
            \/ EnsureInterfaceState("ensure_up", TRUE, "flush", "cleanup")
            \/ SessionEnds
            \/ Call("dms_shutdown", "reload_down", "cleanup")
            \/ ReloadLinkCache("reload_down", "ensure_down", "cleanup")
            \/ EnsureInterfaceState("ensure_down", FALSE, "teardown_rest", "cleanup")
            \/ TeardownRest
            \/ ReloadLinkCache("cleanup_reload", "cleanup_ensure", "done")
            \/ EnsureInterfaceState("cleanup_ensure", FALSE, "done", "done")
  <2>1. pc' \notin Watched
    BY <1>11 DEF NetlinkInitialize, Call, LoopHead, ReloadLinkCache,
       EnsureInterfaceState, SessionEnds, TeardownRest, Watched
  <2>2. pc = "running" \/ pc \notin Watched
    BY <1>11 DEF NetlinkInitialize, Call, LoopHead, ReloadLinkCache,
       EnsureInterfaceState, SessionEnds, TeardownRest, Watched
  <2>3. UNCHANGED settings
    BY <1>11 DEF NetlinkInitialize, Call, LoopHead, ReloadLinkCache,
       EnsureInterfaceState, SessionEnds, TeardownRest
  <2> QED
    BY <2>1, <2>2, <2>3 DEF Watched
<1> QED
  BY <1>1, <1>2, <1>3, <1>4, <1>5, <1>6, <1>7, <1>8, <1>9, <1>10, <1>11
     DEF Next, MainThread

\* StaleAddressFree: with rtnl_addr_delete succeeding on every address the
\* link has and room for all of them in mm_netlink_addrs, the loop's flush
\* (netlink.c, mm_netlink_addr_flush called from initialize()) leaves only
\* the session addresses on mhi_hwip0 while the sessions run.
THEOREM StaleAddressFreeHolds ==
  ASSUME CleanFlush
  PROVE  Spec => []StaleAddressFree
<1>1. FlushInv /\ [Next]_vars => FlushInv'
  BY FlushInvStep
<1>2. FlushInv => StaleAddressFree
  BY DEF FlushInv, StaleAddressFree
<1> QED
  BY <1>1, <1>2, InitFlushInv, PTL DEF Spec

-----------------------------------------------------------------------------
(***************************************************************************)
(* The teardown's ensure_interface_state(.., FALSE) trusts the cached      *)
(* IFF_UP flag.  What makes that safe: the kernel has no route through a   *)
(* down link (it removes them when the link goes down and refuses a new    *)
(* one), so a flag cached as down at the last reload means no route then,  *)
(* and bringing the link back up adds none.                                *)
(***************************************************************************)
RouteInv ==
    /\ ~kUp => routes = {}
    /\ pc = "ensure_down" /\ ~cUp => routes = {}

LEMMA InitRouteInv == Init => RouteInv
BY DEF Init, RouteInv

\* Every step keeps RouteInv: a route is added only through an up link, the
\* link comes up without routes, and the teardown's reload caches "down"
\* only for a link that is down.
LEMMA RouteInvStep == RouteInv /\ [Next]_vars => RouteInv'
<1> SUFFICES ASSUME RouteInv, [Next]_vars PROVE RouteInv'
  OBVIOUS
<1> USE DEF RouteInv
<1>1. CASE \/ ApplyRuntimeSettings("v6", "apply_v6", "sess_v4")
            \/ ApplyRuntimeSettings("v4", "apply_v4", "running")
  <2>1. /\ UNCHANGED <<kUp, cUp>>
        /\ ~kUp => routes' = routes
        /\ pc' # "ensure_down"
    BY <1>1 DEF ApplyRuntimeSettings, ChangeDefaultGatewaySucceeds
  <2> QED
    BY <2>1
<1>2. CASE ReloadLinkCache("reload_down", "ensure_down", "cleanup")
  BY <1>2 DEF ReloadLinkCache
<1>3. CASE \/ ReloadLinkCache("reload_top", "stop_units", "cleanup")
            \/ ReloadLinkCache("cleanup_reload", "cleanup_ensure", "done")
            \/ NetlinkInitialize
  BY <1>3 DEF ReloadLinkCache, NetlinkInitialize
<1>4. CASE \/ EnsureInterfaceState("ensure_up", TRUE, "flush", "cleanup")
            \/ EnsureInterfaceState("ensure_down", FALSE, "teardown_rest", "cleanup")
            \/ EnsureInterfaceState("cleanup_ensure", FALSE, "done", "done")
  BY <1>4 DEF EnsureInterfaceState, LinkGoesDown
<1>5. CASE LinkChangesExternally
  BY <1>5 DEF LinkChangesExternally, LinkGoesDown
<1>6. CASE \/ FlushCollect \/ FlushDelete \/ FlushReturn
            \/ GetRuntimeSettings("v6", "sess_v6", "apply_v6")
            \/ GetRuntimeSettings("v4", "sess_v4", "apply_v4")
            \/ LoopHead \/ SessionEnds \/ TeardownRest
            \/ HandleSignal \/ AddrconfLinkLocal \/ Terminated \/ UNCHANGED vars
            \/ Call("bus", "setup", "cleanup")
            \/ Call("setup", "loop", "cleanup")
            \/ Call("stop_units", "ensure_up", "cleanup")
            \/ Call("dms", "sess_v6", "cleanup")
            \/ Call("dms_shutdown", "reload_down", "cleanup")
  <2>1. UNCHANGED <<kUp, cUp, routes>>
    BY <1>6 DEF FlushCollect, FlushDelete, FlushReturn, GetRuntimeSettings,
       LoopHead, SessionEnds, TeardownRest, HandleSignal, AddrconfLinkLocal,
       Terminated, vars, Call
  <2>2. pc' = "ensure_down" => pc = "ensure_down"
    BY <1>6 DEF FlushCollect, FlushDelete, FlushReturn, GetRuntimeSettings,
       LoopHead, SessionEnds, TeardownRest, HandleSignal, AddrconfLinkLocal,
       Terminated, vars, AfterFlush, Call
  <2> QED
    BY <2>1, <2>2
<1> QED
  BY <1>1, <1>2, <1>3, <1>4, <1>5, <1>6 DEF Next, MainThread

\* RoutingKilledAtTeardown: the teardown's ensure_interface_state(.., false)
\* (netlink.c, called from initialize()) reports success only when no
\* default route through mhi_hwip0 is left, whatever the link did between
\* mm_netlink_reload_link_cache and the call, for every set of addresses.
THEOREM RoutingKilledAtTeardownHolds == Spec => RoutingKilledAtTeardown
<1>1. RouteInv /\ [Next]_vars =>
        [pc = "ensure_down" /\ pc' = "teardown_rest" => routes' = {}]_vars
  <2> SUFFICES ASSUME RouteInv, [Next]_vars, pc = "ensure_down",
                      pc' = "teardown_rest"
               PROVE  routes' = {}
    BY DEF vars
  <2>1. EnsureInterfaceState("ensure_down", FALSE, "teardown_rest", "cleanup")
    BY DEF Next, MainThread, NetlinkInitialize, Call, LoopHead, ReloadLinkCache,
       EnsureInterfaceState, FlushCollect, FlushDelete, FlushReturn,
       GetRuntimeSettings, ApplyRuntimeSettings, SessionEnds, TeardownRest,
       HandleSignal, LinkChangesExternally, AddrconfLinkLocal, Terminated,
       vars, AfterFlush
  <2> QED
    BY <2>1 DEF EnsureInterfaceState, LinkGoesDown, RouteInv
<1> QED
  BY <1>1, InitRouteInv, RouteInvStep, PTL DEF Spec, RoutingKilledAtTeardown

====
