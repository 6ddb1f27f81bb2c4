--------------------------- MODULE NetlinkResources ---------------------------
(***************************************************************************)
(* Ownership of the libnl objects held by struct mm_netlink                *)
(* (src/src/netlink.c): mm_netlink_initialize with its helpers             *)
(* allocate_ipv4_addrs, allocate_ipv6_addrs and allocate_wg0_resources,    *)
(* and mm_netlink_shutdown.  Every acquisition (an allocation, a cache, a  *)
(* link reference) is one step that may fail, and so is every call that   *)
(* can fail without acquiring anything (nl_connect, the ifindex check,    *)
(* rtnl_addr_set_local).  A failure runs the error path the code has at   *)
(* that point, one release per step.                                       *)
(*                                                                         *)
(* The error paths are nested if/else chains that fall through to a run of *)
(* releases.  Each chain is written here as the sequence of releases it    *)
(* can run, with the index at which each failure enters it.               *)
(***************************************************************************)
EXTENDS Naturals, SequencesExt

CONSTANT FailPoints   \* the acquisitions and calls that may fail

-----------------------------------------------------------------------------
(* The acquisitions and fallible calls in the order the code makes them.   *)
InitPoints ==
    <<"nl", "nl_connect", "link_cache_v4", "link_cache_v6", "wwan_link_v4",
      "wwan_link_v6", "wg0_link", "ifindex_check", "addr_cache",
      "addr_filter", "wwan_nexthop">>
V4Points ==
    <<"default_route_addr4", "gateway_addr4", "nl_wwan_addr4",
      "default_route4", "wwan_addr4", "set_local4">>
V6Points ==
    <<"default_route_addr6", "gateway_addr6", "nl_wwan_addr6",
      "default_route6", "wwan_addr6", "set_local6">>
Wg0Points ==
    <<"wg0_gateway_address", "wg0_self_address", "wg0_tgt_address",
      "wg0_tgt_route", "wg0_tgt_nexthop">>
Points == InitPoints \o V4Points \o V6Points \o Wg0Points

\* The points that acquire nothing.
Calls == {"nl_connect", "ifindex_check", "set_local4", "set_local6"}

ASSUME FailPointsAssumption ==
    FailPoints \subseteq Range(Points)

-----------------------------------------------------------------------------
(* The release chains.                                                     *)

\* allocate_ipv4_addrs / allocate_ipv6_addrs: the puts after the innermost
\* else, run from the entry of the failing point.
V4Chain == <<"default_route4", "nl_wwan_addr4", "gateway_addr4", "default_route_addr4">>
V6Chain == <<"default_route6", "nl_wwan_addr6", "gateway_addr6", "default_route_addr6">>
\* A failure of the first build returns at once (entry past the end); the
\* failing rtnl_route_alloc skips its own put; rtnl_addr_alloc and
\* rtnl_addr_set_local both fall through to rtnl_route_put.
AddrsEntry == <<5, 4, 3, 2, 1, 1>>

\* allocate_wg0_resources: the first three builds each return -1 at once.
Wg0Chain == <<"wg0_tgt_route", "wg0_tgt_address", "wg0_self_address", "wg0_gateway_address">>
Wg0Entry == <<5, 5, 5, 2, 1>>

\* mm_netlink_initialize: the nested unwind after the ipv6 helper, then the
\* frees common to every path from the ifindex check on (lines 637-665);
\* the early returns before it free a suffix of the same tail.
MainChain ==
    <<"wwan_addr6", "default_route6", "nl_wwan_addr6", "gateway_addr6",
      "default_route_addr6",
      "wwan_addr4", "default_route4", "nl_wwan_addr4", "gateway_addr4",
      "default_route_addr4",
      "wwan_nexthop", "addr_filter", "addr_cache",
      "wwan_link_v6", "wwan_link_v4", "link_cache_v6", "link_cache_v4", "nl">>
InitEntry == <<19, 18, 18, 17, 16, 15, 14, 14, 14, 13, 12>>

\* Index of point p in a sequence that holds it.
IndexIn(s, p) == CHOOSE i \in 1 .. Len(s) : s[i] = p

\* Run a chain from an entry index (past the end: nothing).
From(chain, k) == SubSeq(chain, k, Len(chain))

\* Mutant: a failure in allocate_ipv6_addrs enters the unwind of
\* mm_netlink_initialize one put early, at default_route_addr6.
UnwindV6EntryOffByOne(p) ==
    CASE p \in Range(InitPoints) ->
            From(MainChain, InitEntry[IndexIn(InitPoints, p)])
      [] p \in Range(V4Points) ->
            From(V4Chain, AddrsEntry[IndexIn(V4Points, p)]) \o From(MainChain, 11)
      [] p \in Range(V6Points) ->
            From(V6Chain, AddrsEntry[IndexIn(V6Points, p)]) \o From(MainChain, 5)
      [] OTHER ->
            From(Wg0Chain, Wg0Entry[IndexIn(Wg0Points, p)]) \o From(MainChain, 1)

\* The releases the code runs when point p fails, in order.
Unwind(p) ==
    CASE p \in Range(InitPoints) ->
            From(MainChain, InitEntry[IndexIn(InitPoints, p)])
      [] p \in Range(V4Points) ->
            From(V4Chain, AddrsEntry[IndexIn(V4Points, p)]) \o From(MainChain, 11)
      [] p \in Range(V6Points) ->
            From(V6Chain, AddrsEntry[IndexIn(V6Points, p)]) \o From(MainChain, 6)
      [] OTHER ->
            From(Wg0Chain, Wg0Entry[IndexIn(Wg0Points, p)]) \o From(MainChain, 1)

\* Mutant: mm_netlink_shutdown without the put of wg0_link.
ShutdownOrderWithoutWg0Link ==
    <<"wg0_tgt_nexthop", "wg0_tgt_route", "wg0_tgt_address", "wg0_self_address",
      "wg0_gateway_address">> \o SubSeq(MainChain, 1, 13) \o From(MainChain, 14)

\* mm_netlink_shutdown: the puts and frees in the order of the code.
ShutdownOrder ==
    <<"wg0_tgt_nexthop", "wg0_tgt_route", "wg0_tgt_address", "wg0_self_address",
      "wg0_gateway_address">> \o SubSeq(MainChain, 1, 13) \o
    <<"wg0_link">> \o From(MainChain, 14)

-----------------------------------------------------------------------------
VARIABLES
    pc,       \* "init", "unwind", "failed", "up", "shutdown" or "down"
    next,     \* index in Points of the next acquisition or call
    live,     \* the objects held, in the order they were acquired
    toFree    \* the releases still to run on the current path

vars == <<pc, next, live, toFree>>

Init ==
    /\ pc = "init" /\ next = 1
    /\ live = <<>> /\ toFree = <<>>

\* The next acquisition or call succeeds; after the last one
\* mm_netlink_initialize returns 0.
Acquire ==
    /\ pc = "init"
    /\ LET p == Points[next] IN
         live' = IF p \in Calls THEN live ELSE Append(live, p)
    /\ IF next = Len(Points)
         THEN pc' = "up" /\ UNCHANGED next
         ELSE next' = next + 1 /\ UNCHANGED pc
    /\ UNCHANGED toFree

\* It fails: nothing is acquired and the code's error path starts.
Fail ==
    /\ pc = "init"
    /\ Points[next] \in FailPoints
    /\ pc' = "unwind"
    /\ toFree' = Unwind(Points[next])
    /\ UNCHANGED <<next, live>>

\* One put or free of the running path (error path or shutdown): it drops
\* one reference to the object, and a put of an object not held changes
\* nothing that is held.
Release ==
    /\ pc \in {"unwind", "shutdown"}
    /\ toFree # <<>>
    /\ live' = RemoveFirst(live, Head(toFree))
    /\ toFree' = Tail(toFree)
    /\ UNCHANGED <<pc, next>>

\* The path has run to its end: initialize returns its error, or
\* shutdown returns.
Return ==
    /\ pc \in {"unwind", "shutdown"}
    /\ toFree = <<>>
    /\ pc' = IF pc = "unwind" THEN "failed" ELSE "down"
    /\ UNCHANGED <<next, live, toFree>>

\* main() calls mm_netlink_shutdown after a successful initialize.
Shutdown ==
    /\ pc = "up"
    /\ pc' = "shutdown"
    /\ toFree' = ShutdownOrder
    /\ UNCHANGED <<next, live>>

Done ==
    /\ pc \in {"failed", "down"}
    /\ UNCHANGED vars

Next == Acquire \/ Fail \/ Release \/ Return \/ Shutdown \/ Done

Spec == Init /\ [][Next]_vars

-----------------------------------------------------------------------------
(* Properties.                                                             *)

TypeOK ==
    /\ pc \in {"init", "unwind", "failed", "up", "shutdown", "down"}
    /\ next \in 1 .. Len(Points)
    /\ live \in Seq(Range(Points) \ Calls)
    /\ toFree \in Seq(Range(Points) \ Calls)

\* No put or free on an error path of mm_netlink_initialize or in
\* mm_netlink_shutdown reaches an object that is not held at that moment:
\* each object still to be released is held and is released once (a
\* second put of a libnl object is a use after free).
ReleasesOnlyHeld ==
    pc \in {"unwind", "shutdown"} =>
        /\ IsInjective(toFree)
        /\ Range(toFree) \subseteq Range(live)

\* mm_netlink_shutdown releases every object mm_netlink_initialize acquired,
\* in the reverse order of acquisition (spec.md, Netlink Manager), and
\* leaves nothing held.
ShutdownReleasesInReverse ==
    pc \in {"shutdown", "down"} => toFree = Reverse(live)

\* A failed mm_netlink_initialize releases everything it acquired, in the
\* reverse order of acquisition (spec.md: partial initialisation is
\* unwound in strict reverse order), and so holds nothing when it returns.
UnwindReleasesInReverse ==
    pc \in {"unwind", "failed"} => toFree = Reverse(live)

====
