# Formal models of modem-monitor

TLA+ specifications, TLC models and TLAPS proofs for `modem-monitor`, the
daemon that brings up and supervises the IPv6 and IPv4 packet-data sessions
of a Qualcomm/Sierra WWAN modem over QMI. It also manages the host side: the
`mhi_hwip0` and `wg0` links, and the `unbound` and `chrony` units.

## 1. The system and its parts

| Part | Source | State it owns | Operations |
|---|---|---|---|
| Supervisor (`src/main.c`, which is the second half of `src/src/netlink.c`, lines 762-1199) | `main`, `initialize`, `run_up_ipv6`, `run_up_ipv4`, `run_sessions_up`, `handle_signal` | `exit_requested`, and the resources held by `main` | acquire transport, CtlService, netlink and sd-bus; the outer loop; nested session bring-up; monitor; teardown; release |
| WDS client (`src/unnamed/part_008`, wds.c) | `mm_wds_*`, `wds_indication_callback` | per session: client, `session_id`, `teardown_requested`, last runtime settings | initialize, start/stop data session, runtime settings, shutdown; the indication callback |
| DMS client (`src/src/dms.c`) | `mm_dms_*` | DMS and SWI-DMS clients, cached `model_id` | initialize, set power (ONLINE), shutdown |
| Host network manager (`src/src/netlink.c` 1-761) | `mm_netlink_*` | netlink socket, link and address caches | ensure link state, flush addresses, apply addresses/routes, reload caches |
| Run helpers (`src/unnamed/part_007`) | `mm_start_session`, `mm_apply_ipv*_runtime_settings`, `mm_configure_autoconnect_and_roaming`, `mm_exec_wireguard_setconf` | none of their own | compositions of the above; a `wg setconf` subprocess |
| Service control (`src/unnamed/part_005`) | `mm_sdbus_manage_service` | systemd unit state (external) | StartUnit / StopUnit |
| QMUX wrappers (`src/unnamed/part_006`) | `mm_qmux_*`, `mm_ctl_*` | transport, CtlService | initialize / shut down |

**How the parts interact.**
- There are three concurrent actors:
  - the main thread, which runs everything above in sequence;
  - the QMI transport's reader thread, which runs `wds_indication_callback` for each packet-service-status indication;
  - the SIGINT handler.
- The reader thread and the main thread share the `mm_wds_session` of each family, with no locking:
  - the callback reads `session_id`, which the main thread writes while it unpacks the StartDataSession reply;
  - the callback writes `teardown_requested`, which the main thread polls in `run_sessions_up`.
- The signal handler writes `exit_requested`, which every loop polls.
- The modem is the environment. It brings a session up, ends it (network side, or at the host's request), and queues the indications the callback receives.

**The hard behaviours.**
- The race between the reader thread and the reply unpacking.
- Failure of any step of the bring-up or teardown chain, and whether each failure path releases what was acquired.
- SIGINT at any point.
- The network ending a session at any time.
- The DISCONNECTED indication that follows the host's own stop.
- The nested lifetime of the two WDS sessions.

## 2. Modules

| Module | Models | Run instance |
|---|---|---|
| `Supervisor.tla` | the supervisor (`main`, `initialize`, `run_up_*`, `run_sessions_up`), with the WDS/DMS/netlink/sd-bus calls it makes as success/failure steps, the indication callback, the modem and SIGINT | `MCSupervisor.tla` (the end-reason constants) |
| `SupervisorProofs.tla` | TLAPS proofs of the type invariant, `TeardownOnlyOnNetworkEnd`, `SessionNesting` and `ChronyStartOrder` | - |
| `WwanNetlink.tla` | the WWAN link `mhi_hwip0` against the kernel: the cached `IFF_UP` flag, `ensure_interface_state`, `mm_netlink_addr_flush` one delete at a time, the addresses the apply steps add, along the whole control flow of `main` | `MCWwanNetlink.tla` (two IPv4, two global IPv6 and one link-local address) |
| `WdsRuntimeSettings.tla` | `mm_wds_get_runtime_settings`: the presence mask, the IPv6 prefix choice and the IPv4 mask-to-prefix loop, one step per iteration | `MCWdsRuntimeSettings.tla` (8-bit masks) |
| `WdsSettingsContract.tla` | what `mm_wds_get_runtime_settings` promises (spec.md), as one step; `WdsRuntimeSettings` refines it | through `RefinesContract` |
| `WdsRuntimeSettingsProofs.tla` | TLAPS proofs of `V4PrefixMatchesMask` and of the refinement | - |
| `WwanNetlinkProofs.tla` | TLAPS proofs of `StaleAddressFree` and `RoutingKilledAtTeardown` | - |
| `NetlinkResources.tla` | ownership of the libnl objects: every acquisition of `mm_netlink_initialize` and its three helpers, every error path, and `mm_netlink_shutdown` | `MCNetlinkResources.tla` |
| `NetlinkResourcesProofs.tla` | TLAPS proofs of `ReleasesOnlyHeld` and `ShutdownReleasesInReverse` | - |
| `TunnelConfig.tla` | `mm_exec_wireguard_setconf`: fork, exec, the child's end, `waitpid` interrupted by SIGINT, the wait-status decoding; with its TLAPS proof | `MCTunnelConfig.tla` (exit codes 0..255, signals 6, 9, 15) |
| `AutoconnectSetup.tla` | `mm_configure_autoconnect_and_roaming`: the NULL-context WDS client, the getter, the setter, shutdown, and the indication callback run for that client; with its TLAPS proofs | the module itself |

### State of `Supervisor`

| Variable | Code |
|---|---|
| `pc`, `fam` | program point of the main thread; `fam` is the innermost `run_up_*` frame (`v6` is the outer frame, `v4` the nested one) |
| `exit_requested` | `main.c:792` |
| `held` | the transport, CtlService, netlink and bus held by `main` |
| `link`, `unit` | `IFF_UP` of wwan and wg0; whether chrony and unbound run |
| `stopFailed` | history: whether the last StopUnit of a unit failed |
| `dms`, `model_id` | DMS clients attached; `dms->model_id` cached |
| `wds`, `session_id`, `teardown_requested` | per family, the `mm_wds_session` fields. `session_id` is 0 or 1, where 1 stands for any non-zero id |
| `modem`, `inds` | per family, the modem-side session state and the indications queued to the client |
| `power`, `mode` | the modem's operating mode (ONLINE or LOW_POWER) and hardware lock; `initialize`'s local `mode`, written by `mm_dms_set_power_sync` |

### Actions of `Supervisor`

- **Main thread.** One action per call of `main`, `initialize` and `run_up_*`, in code order. Each action:
  - has the guard `pc = <its point>`;
  - branches on the call's outcome;
  - takes the code's branch for that outcome: `break` to cleanup, set `exit_requested`, or return from `run_up_*`.
  - `Proceed(from, to)` is a call whose only effect is to continue or to break.
  - `ReturnFrom(f)` is the return from `run_up_f`: into the stop of the v6 session, or out of Phase C.
- **StartSession / StartSessionReply.** The StartDataSession call is split into two steps:
  - the modem brings the session up and queues CONNECTED;
  - the main thread unpacks the reply into `session_id`.

  The split matters because the reader thread may run between the two. The unpack writes through `resp.psid`, which points at `session->session_id` (wds.c:307). That the unpack runs on the main thread, after the reply arrives and while the reader thread keeps delivering indications, is a property of lite-qmi's transport, which is not under src (see Assumptions).
- **GetRuntimeSettings.** The modem reports settings only for an active session (spec Glossary, "Runtime settings"). For a session the network has already ended the request fails, and `run_up_*` stops and releases the session. For a live session a transport error, or a missing address or gateway, does the same.
- **WdsIndicationCallback(f).** Delivers the oldest queued indication of family `f`:
  - the indication is any record the modem may send for that event (`ModemRecords`): connection status, and whether each end-reason TLV is present and what it holds;
  - the callback sets `teardown_requested` under exactly the condition at wds.c:484-488 (`RequestsTeardown`).
- **DmsSetPower.** The whole of `mm_dms_set_power_sync` and the caller's checks (main.c:878-888):
  - `PowerReports` is what `mm_dms_get_power_sync` reports: each of the mode and lock TLVs may be absent, which reads as INVALID and unlocked;
  - a report of ONLINE or of a lock returns success with that mode and no write;
  - otherwise SetPower is sent (`PoweredOnline`: a locked modem keeps its mode) and read back; a transport error may come after the modem applied it;
  - any error, and a mode other than ONLINE (`AfterSetPower`), breaks out of the loop.
- **NetworkEndsSession(f)** and **HandleSignal.** The environment's actions.
- **WdsShutdown.** Releases the client. Its modem session and its undelivered indications go with it. This is an assumption about the modem: it ends a client's sessions when the client is released.

The callback's early breaks (an unpack error, an error TLV, a missing context TLV) only ever lead to "no teardown", so the record set leaves them out.

### `WwanNetlink`

- **State.**
  - The kernel's side: `kUp` (`IFF_UP` of `mhi_hwip0`), `kAddrs` (addresses on it), `routes` (families with a default route through it).
  - The program's side: `cUp`, the flag as the cached `wwan_link_v4` object holds it; `pending` and `status`, the locals of a running `mm_netlink_addr_flush`; `flushRet`, its call site; `settings`, the address each session was given.
- **Actions.**
  - The main thread follows `main` with the same program points as `Supervisor`.
  - `ReloadLinkCache` copies `kUp` into `cUp`.
  - `EnsureInterfaceState` compares the request with `cUp`, not the kernel, and sends `rtnl_link_change` only when they differ.
  - `FlushCollect` refills the address cache and collects the non-link addresses of both families, at most `MaxNetlinkAddrs` of them (status -1 past that).
  - `FlushDelete` deletes one address and overwrites `status` with the result of that delete; `FlushReturn` returns it.
- **Environment.** `LinkChangesExternally` (another process sets the link up or down) and `AddrconfLinkLocal` (the kernel adds the link-local address to an up link).
- **Kernel semantics** (`LinkGoesDown`): putting the link down removes its IPv6 addresses and its routes; IPv4 addresses stay.

### `WdsRuntimeSettings`

- `GetRuntimeSettings` clears the outputs, sends the request, and unpacks the answer under the presence bits 30, 32, 33, 37 and 38, per the session's family. `V6Prefix` is the address/gateway prefix choice.
- What the modem sends is fixed at `Init`: the mask `sentMask` and the IPv6 prefix lengths `sentAddrLen` (address TLV) and `sentGwLen` (gateway TLV); which TLVs are present is chosen at the answer.
- `DeriveV4Prefix` is one test of `while (!(resp.SubnetMaskV4 & 0x1))`: leave, or shift right and decrement `prefix_length`. `Width` is the mask width (32 in the code). Decrements below `PrefixFloor` are not tracked, so the state space stays finite while a loop that runs on forever is still visible.

### `NetlinkResources`

- Every acquisition and every call that can fail is a point of `Points`, in code order: the 11 of `mm_netlink_initialize`, then the 6 of each address helper and the 5 of `allocate_wg0_resources`.
- The error paths are nested if/else chains that fall through to a run of puts. Each chain (`V4Chain`, `V6Chain`, `Wg0Chain`, `MainChain`) is the sequence of releases it can run. The entry tables (`AddrsEntry`, `Wg0Entry`, `InitEntry`) give where each failure enters. `Unwind(p)` is what the code releases when point `p` fails.
- `live` holds the acquired objects in acquisition order. `Acquire`, `Fail`, and one `Release` per put or free; `Shutdown` runs `ShutdownOrder`, the puts of `mm_netlink_shutdown`.
- A `Release` drops one reference to its object (`RemoveFirst`), as one `*_put` or `*_free` does. A put of an object that is not held changes nothing held; `ReleasesOnlyHeld` is what rules that out.

### `TunnelConfig`

- `Fork` (or its failure), `ChildEnds` (exit with a code, or a signal), `WaitReturns` (reap and decode), `HandleSignal` (SIGINT, which interrupts `waitpid` with EINTR) and `Returned`.
- The wait status is encoded the way Linux does it: `c * 256` for an exit with code `c`, `s` for a death by signal `s`. `WIFEXITED` and `WEXITSTATUS` are the macros' arithmetic.

### `AutoconnectSetup`

- `InitializeClient` attaches the WDS client with a NULL context.
- `GetAutoconnect`: the getter sets both values to INVALID before its request, so on error both stay INVALID; otherwise each TLV may be present or absent, and an absent one reads as INVALID. `SettingsMatch` is the code's test of the reported settings against DISABLED/HOME_ONLY.
- `SetAutoconnect` sends the requested settings: on success the modem takes them; a transport error may come after the modem took them; a TLV error means it refused them.
- `ShutdownClient`, and `IndicationCallback`: the reader thread runs `wds_indication_callback` for the packet-service-status indications sent to this client, with a NULL `session`; `derefNull` records a log that reads `session->session_id`.

### Abstract specifications

`WdsSettingsContract` is what spec.md says `mm_wds_get_runtime_settings` does, in one step:
- `Fail`: the request fails and the settings stay cleared;
- `Answer`: the fields of the session's family are filled in. For IPv4 the prefix is `MaskPrefix(sentMask)`, the width minus the trailing zero bits (0 for mask 0). For IPv6 it is the address TLV's when that is present and non-zero, else the gateway's (`AddressPrefixWins`).

`WdsRuntimeSettings` instantiates it as `Contract` with a refinement mapping that hides the mask loop. At `shift` the mapping shows `pc = "idle"`, prefix 0 and both flags FALSE: the call has not answered yet. The step that leaves the loop is then the contract's `Answer`. `RefinesContract == Contract!Spec` is a property of the `wds_prefix` run and a theorem. The contract is safety only: that an answer comes is `GetRuntimeSettingsReturns`, and the zero mask breaks it.

## 3. Runs

| # | Run | Module / cfg | Expect | Checks |
|---|---|---|---|---|
| 1 | `supervisor` | `MCSupervisor` / `MCSupervisor.cfg` | pass | `TeardownOnlyOnNetworkEnd`, `SessionNesting`, `ChronyStartOrder`, `TeardownLeadsToRelease`, `NetworkEndLeadsToRelease`, `ExitLeadsToTermination` |
| 2 | `exit_path_leaks` | `MCSupervisor` / `MCSupervisor_ExitPaths.cfg` | violation | `ResourcesReleasedOnExitPaths` |
| 3 | `mode_refused_exits` | `MCSupervisor` / `MCSupervisor_ModeRefused.cfg` | violation | `ModeRefusalRetried` |
| 4 | `netlink_flush_clean` | `MCWwanNetlink` / `MCWwanNetlink_Clean.cfg` | pass | `StaleAddressFree`, `RoutingKilledAtTeardown` |
| 5 | `flush_masked` | `MCWwanNetlink` / `MCWwanNetlink_FlushMasked.cfg` | violation | `StaleAddressFree` |
| 6 | `wds_prefix` | `MCWdsRuntimeSettings` / `MCWdsRuntimeSettings.cfg` | pass | `V4PrefixMatchesMask`, `GetRuntimeSettingsReturns`, `RefinesContract` |
| 7 | `zero_mask_hang` | `MCWdsRuntimeSettings` / `MCWdsRuntimeSettings_ZeroMask.cfg` | violation | `GetRuntimeSettingsReturns` |
| 8 | `netlink_ownership` | `MCNetlinkResources` / `MCNetlinkResources.cfg` | pass | `ReleasesOnlyHeld`, `ShutdownReleasesInReverse` |
| 9 | `init_failure_leaks` | `MCNetlinkResources` / `MCNetlinkResources_InitFailure.cfg` | violation | `UnwindReleasesInReverse` |
| 10 | `setconf_eintr` | `MCTunnelConfig` / `MCTunnelConfig_Eintr.cfg` | violation | `ChildReapedOnReturn` |
| 11 | `null_context_indication` | `AutoconnectSetup` / `AutoconnectSetup_NullContext.cfg` | violation | `NoNullSessionAccess` |

### Bounds, and why they are enough

- **Supervisor.** `EndReasons = {2, 7}` (the client-end reason and one network reason), `VerboseTypes = {3, 6}` and `VerboseReasons = {2000, 1}` (the verbose client-end marker and one value of each that does not mark a client end). They produce every branch of the filter at wds.c:484. The modem starts in either operating mode, locked or not. There is no other data and no counter: TLC explores the whole space (8,534 distinct states).
- **WwanNetlink.** Two IPv4 and two global IPv6 addresses, so that a stale address and a fresh one of the same family can both be on the link, and one link-local address. `netlink_flush_clean` (6,802 states) sets `MaxNetlinkAddrs` to 4, the number of non-link addresses, so the collection never overflows, and makes a delete of a present address succeed; a delete still fails when the link went down under the flush. `flush_masked` sets it to 1 and lets deletes fail, so that both the overflow and the failed delete are reachable. `RoutingKilledAtTeardown` does not depend on the flush, and the link flaps freely in both.
- **WdsRuntimeSettings.** `Width = 8`: every mask shape (contiguous, with holes, a single bit) occurs among the 255 non-zero masks, and the loop's arithmetic does not depend on the width. `PrefixFloor = -1` is one decrement past zero, which is enough to tell a loop that ends from one that runs past the last bit. The IPv6 prefix lengths are 0, 64 and 128, so a zero address length and a disagreeing gateway both occur (41,166 states).
- **NetlinkResources.** Every point may fail (`FailPoints` is all of `Points`), so every error path of the code is taken (401 states).
- **TunnelConfig.** All 256 exit codes and three signals (6, 9, 15).

### What the properties say

- **`TeardownOnlyOnNetworkEnd`.** An attached session has a teardown request only if the network ended it. A CONNECTED indication never requests teardown, and neither does the DISCONNECTED the modem sends after the host's own stop.
- **`SessionNesting`.** The v4 client exists only inside an established v6 session, and no client outlives Phase C.
- **`ChronyStartOrder`** (an action property). chrony starts only with unbound running, wg0 up and both sessions established.
- **`TeardownLeadsToRelease`** and **`ExitLeadsToTermination`.** A teardown request ends in the release of the session, and an exit request ends the process.
- **`NetworkEndLeadsToRelease`** (liveness). A session the network ended is eventually released (spec 4.3, 8.5, scenario S2). The reader thread drops a DISCONNECTED that it handles before the main thread has stored `session_id` (wds.c:484), so no teardown is requested. The session is still released: the runtime-settings request that follows fails for the dead session, and `run_up_*` stops and releases it. The property would fail if that request's result were not checked.
- **`RoutingKilledAtTeardown`** (an action property). When `ensure_interface_state(.., false)` reports success in the teardown, no default route through the WWAN link is left. It decides from the cached flag, which may be stale: the link can go down and come back up between the reload and the call. It holds because a cached "down" means the link was down at the reload, and the routes went with it (the kernel removes them), and coming back up adds none; a cached "up" sends the change.
- **`StaleAddressFree`.** Once both sessions run, the link holds no non-link address but the two the modem handed out, whatever it held at start or from the last iteration. It holds when deletes cannot fail and the collection cannot overflow.
- **`V4PrefixMatchesMask`.** The prefix length is the width minus the mask's trailing zeros, and `k` for a contiguous `/k` mask (spec testable property 4).
- **`GetRuntimeSettingsReturns`** (liveness). The function returns.
- **`RefinesContract`** (refinement). Every step of `mm_wds_get_runtime_settings`, with the loop hidden, is a step of `WdsSettingsContract` or a stutter: the IPv4 prefix is the mask's and the IPv6 address prefix wins over the gateway's.
- **`ReleasesOnlyHeld`.** No put or free, on an error path or in shutdown, reaches an object that is not held, and none is released twice.
- **`ShutdownReleasesInReverse`.** `mm_netlink_shutdown` releases every object in the reverse order of acquisition.

### Violations found

Each is a finding in PROJECT.json.

- **`exit_path_leaks`.** `ResourcesReleasedOnExitPaths` joins two requirements:
  - the services are detached before the CtlService is shut down: `set_power` fails, or the mode is not ONLINE, and `initialize` breaks without `mm_dms_shutdown` (netlink.c:878);
  - the units are stopped before exit: a failure in an iteration's teardown breaks out before chrony and unbound are stopped (netlink.c:893).
- **`flush_masked`.** `mm_netlink_addr_flush` overwrites `status` with each delete's result. A failed delete followed by a successful one, or an overflowing collection (-1) followed by a successful delete, returns 0, and the sessions run with a stale address.
- **`mode_refused_exits`.** A modem held in LOW_POWER by a hardware lock makes `set_power_sync` return success with LOW_POWER; `initialize` breaks out of its loop (main.c:884-888) and the daemon exits. Spec scenario S4 says the iteration fails, sleeps and retries.
- **`zero_mask_hang`.** With the mask 0, `while (!(mask & 1))` never ends: the main thread hangs in `run_up_ipv4`.
- **`init_failure_leaks`.** A failed `mm_netlink_initialize` returns holding objects:
  - `wg0_link`, which the shared unwind at netlink.c:660 never puts;
  - the wg0 addresses, when `allocate_wg0_resources` returns early at 206/216;
  - `wwan_addr4`/`wwan_addr6`, when `rtnl_addr_set_local` fails (87, 162).
- **`setconf_eintr`.** SIGINT is installed without `SA_RESTART`, so a SIGINT while `waitpid` blocks on the running `wg setconf` makes it fail with EINTR, and `mm_exec_wireguard_setconf` returns without reaping the child. (A child that has already exited is reaped before the kernel looks for the signal, so the model allows EINTR only while the child runs.)
- **`null_context_indication`.** The autoconnect client is attached with a NULL context, and the callback logs `session->session_id` (part_008:438, 453, 467) before its only NULL check (484).

### Fairness

- **Supervisor.** `WF(MainThread)` and `WF(WdsIndicationCallback(f))` for each family. The model takes every call of the main thread to return: QMI requests carry a timeout, and the sleeps end. One call does not: `mm_wds_get_runtime_settings` hangs when the modem reports the IPv4 mask 0 (`zero_mask_hang`). `Supervisor` abstracts the mask away, so `TeardownLeadsToRelease`, `NetworkEndLeadsToRelease` and `ExitLeadsToTermination` hold only for modems that never report a zero mask. The transport's reader thread delivers every queued indication. SIGINT and the network get no fairness: nothing obliges them to act.
- **WdsRuntimeSettings.** Weak fairness of the function's own steps: the request has a timeout and the loop body is straight-line code.
- The other modules check only safety and have no fairness.

Deadlock is checked in every run. Each module's final state (`done`, `returned`, `failed`, `down`) has an action that stutters.

### Mutants

Each passing property has a mutant: a plausible code bug, written as an operator beside the definition it replaces, that TLC then catches.

| Mutant | Plausible bug | Property it breaks |
|---|---|---|
| `RequestsTeardownVerboseOnly` | the filter forgets reason 2 | `TeardownOnlyOnNetworkEnd` |
| `WdsShutdownSkippedForV4` | `run_up_ipv4` forgets `mm_wds_shutdown` | `SessionNesting` |
| `WireguardUpIgnoringSetconf` | a failed setconf does not stop the chain | `ChronyStartOrder` |
| `RunSessionsUpV4Only` | a copy-paste tests the v4 flag twice | `TeardownLeadsToRelease` |
| `LoopHeadIgnoringExit` | the loop does not test `exit_requested` | `ExitLeadsToTermination` |
| `GetRuntimeSettingsUnchecked` | the result of `mm_wds_get_runtime_settings` is not checked | `NetworkEndLeadsToRelease` |
| `EnsureInterfaceStateUpOnly` | the `request_up == false` branch is left out | `RoutingKilledAtTeardown` |
| `FlushCollectV4Only` | the AF_INET6 pass of the collection is left out | `StaleAddressFree` |
| `DeriveV4PrefixTestingBit1` | the loop tests `& 0x2` | `V4PrefixMatchesMask` |
| `DeriveV4PrefixShiftingLeft` | the mask is shifted left | `GetRuntimeSettingsReturns` |
| `V6PrefixWithoutZeroTest` | the `prefix_length &&` test is dropped, so an absent address TLV's 0 counts as a disagreement with the gateway | `RefinesContract` |
| `UnwindV6EntryOffByOne` | a v6 failure enters the unwind one put early | `ReleasesOnlyHeld` |
| `ShutdownOrderWithoutWg0Link` | shutdown forgets the put of `wg0_link` | `ShutdownReleasesInReverse` |

## 4. Proofs

### `SupervisorProofs.tla`

All four theorems hold for every value of the constants that satisfies `ConstantsAssumption`: the end-reason sets are sets of naturals that contain the client-end markers.

- **`TypeCorrect`: `Spec => []TypeOK`.**
  - `InitTyped`, and `NextTyped` with one case per action.
  - Each main-thread case first places the new program point in `MainPCs`, then types the remaining variables.
  - `AppendTyped` types the queue after an indication is added. `PowerTyped` types what GetPower reports and the modem's state after SetPower.
- **`TeardownOnlyOnNetworkEndHolds`: `Spec => []TeardownOnlyOnNetworkEnd`.**
  - The invariant is not inductive as it stands. A callback step sets the flag from whatever indication heads the queue, and a bring-up step creates a session.
  - The strengthening `IInv` adds these conjuncts:
    - a released client has no modem session;
    - a client with no modem session has an empty queue;
    - every queued network DISCONNECTED implies that the modem state is `netEnded`;
    - at `attach` the frame's client is released, and at `start` it is attached with no modem session;
    - no client exists outside Phase C, and no v4 client exists outside `run_up_ipv4`.
  - TLC checked `IInv` as an invariant of the full model before the proof.
  - The lemmas:
    - `FilterSelectsNetworkEnd`: the filter of wds.c:484 requests teardown only for a network-ended DISCONNECTED;
    - `SessionFrame`: a step that leaves the session state alone keeps `IInv`;
    - one lemma per session-changing action: `WdsInitialize`, `StartSession`, `StopDataSession`, `WdsShutdown`, `ApplyRuntimeSettings`, `NetworkEndsSession` and the callback;
    - `IInvInductive`, which combines them; `IInvHolds` is `Spec => []IInv`.
- **`SessionNestingHolds`: `Spec => []SessionNesting`**, and **`ChronyStartOrderHolds`: `Spec => ChronyStartOrder`** (the action property).
  - `SessionNesting`'s second conjunct comes from `IInv`. The first, and the order of the bring-up, rest on `PhaseCInv`, which follows the main thread through `run_up_ipv6` / `run_up_ipv4`:
    - from the WDS reply on, the frame's client is attached, and from the settings on it holds a session;
    - inside the v4 frame the v6 client is attached and holds a session;
    - from unbound's start to chrony's, the v4 session is established; from wg0's setup on, unbound runs; at chrony's start wg0 is up.
  - `PhaseCInductive` is proved relative to `IInv` (it uses that no v4 client exists outside `run_up_ipv4`), with one case per action: the network can end a session but does not release the client, and a session id changes only in the frame's own `WdsInitialize` (to 0) and start reply (to 1).
  - `ChronyStartStep`: the only step that starts chrony is taken at `start_chrony`, where `PhaseCInv` gives all of the conclusion.
  - TLC checked `PhaseCInv` as an invariant of the `supervisor` instance before the proof.

### `TunnelConfig.tla`

- **`SuccessOnlyForCleanExitHolds`: `ConstantsOK => (Spec => []SuccessOnlyForCleanExit)`**, for every set of exit codes within 0..255 and of signals within 1..127 (`ConstantsOK`).
  - `SuccessOnlyForCleanExit` is not inductive: `WaitReturns` decodes whatever `wstatus` holds, and a status the kernel never produces (say 256 * 256) would decode to 0.
  - `IInv` adds that an ended child's status is in `WaitStatuses`, the statuses the kernel produces: `c * 256` for an exit, `s` for a signal.
  - `DecodeZero`: on such a status, the decoding `WIFEXITED ? WEXITSTATUS : -1` yields 0 only for the status 0. A signal `s` in 1..127 fails `WIFEXITED`, and `c * 256` decodes to `c`.
  - `IInvInductive` has one case per action; the `WaitReturns` case is split into the status's range, the decoding, and the type of `ret`.
- The property is no run's: TLC checked it on `MCTunnelConfig` before the proof, and the proof covers every instance.

### `AutoconnectSetup.tla`

- **`TypeCorrect`: `Spec => []TypeOK`**, with one case per action.
- **`AutoconnectConfiguredHolds`: `Spec => []AutoconnectConfigured`.** A successful return leaves the modem at DISABLED / HOME_ONLY, whatever it held and whichever TLVs the getter reported.
  - `IInv` moves the claim back to the point where the getter has run: from `shutdown` on, a success status means the modem holds the request.
  - `MatchMeansRequested`: the getter's test can succeed only on values it really read, because INVALID equals no requested value. This is the step a reviewer would question: a getter that reported a missing TLV as the requested value would make the setter skip its write.
  - `IInvInductive`: the `GetAutoconnect` case PICKs the presence flags the getter saw and applies the lemma; `SetAutoconnect` on success writes the request; a transport error leaves the status non-zero whatever the modem did.

### `WdsRuntimeSettingsProofs.tla`

The theorems hold for every `Width` in 1..32 (the mask is a `uint32_t`), every set of masks below `2^Width`, every set of IPv6 prefix lengths in 0..128 and every negative `PrefixFloor` (`SettingsAssumption`).
- **`V4PrefixMatchesMaskHolds`: `Spec => []V4PrefixMatchesMask`.**
  - `LoopInv` is the loop invariant of `while (!(mask & 1))`: during the loop and after a v4 answer with a gateway, either the mask is 0 (and the loop never ends), or `prefix \in 1..Width`, `mask < 2^prefix` and `sentMask = mask * 2^(Width - prefix)`, with `mask` odd once the loop has left.
  - The power-of-two facts are lemmas: `Pow2Double` and `Pow2Split` (`2^n = 2^(n-j) * 2^j`), proved by one case per exponent 0..31. The provers know `2^k` only for a literal `k`, and the library's doubling lemma has no proof, so the width bound is what makes them provable.
  - `LowestSetBitUnique` and `TrailingZerosIs`: an odd `m * 2^z` has exactly `z` trailing zeros. So the loop's result is `Width - TrailingZeroBits(sentMask)`, and for a contiguous `/k` mask that is `k` (`ContiguousMaskLowestBit`).
- **`ImplementsContract`: `Spec => RefinesContract`.**
  - `RefinedInit`: the initial states map to the contract's.
  - `RefinedStep`, under `LoopInv` and `IdleInv` (an idle call has no status, prefix 0 and both flags FALSE): a failed request is `Fail`; a v6 answer or a v4 answer without a gateway is `Answer` (`V6PrefixIsAddressPrefixWins` relates the code's test to the contract's); a v4 answer with a gateway enters the loop and is a stutter; a loop iteration is a stutter; the exit is `Answer`, with `LoopExitPrefix` giving `MaskPrefix(sentMask)`.

### `WwanNetlinkProofs.tla`

- **`StaleAddressFreeHolds`: `CleanFlush => (Spec => []StaleAddressFree)`.** `CleanFlush` states the conditions of the `netlink_flush_clean` run for any address sets: a delete of an address the link has does not fail, and the non-link addresses are finitely many and fit in `MaxNetlinkAddrs`. The `flush_masked` violation shows that neither can be dropped.
  - `FlushInv`: while the deletes run, every non-link address on the link is still pending; from the flush's success to the v6 apply there is none; then at most the recorded v6 address, then at most the two session addresses.
  - `CollectTakesAll`: the collection takes every non-link address when they fit (cardinality of a subset).
  - `FlushInvStep`, one case per action: the kernel removes addresses at will, and by itself adds only the link-local one.
- **`RoutingKilledAtTeardownHolds`: `Spec => RoutingKilledAtTeardown`** (the action property), with no hypothesis.
  - `RouteInv`: there is no route through a down link, and at `ensure_down` a cached "down" means there is no route. The second conjunct is what the stale flag needs: the reload cached "down" only for a down link (first conjunct), and the link coming back up adds no route.
  - `RouteInvStep`, one case per call site: a route is added only when `ChangeDefaultGatewaySucceeds`, that is through an up link; the reload before `ensure_down` caches the kernel's flag.
  - The property's step is then `EnsureInterfaceState("ensure_down", FALSE, ..)`: a cached "down" changes nothing and `RouteInv` gives no route; a cached "up" sends the change and the kernel removes the routes.

### `NetlinkResourcesProofs.tla`

- **`ReleasesOnlyHeldHolds`: `Spec => []ReleasesOnlyHeld`** and **`ShutdownReleasesInReverseHolds`: `Spec => []ShutdownReleasesInReverse`**, for every set `FailPoints` of points that may fail (`FailPointsAssumption` only says they are points).
- `IInv`, the inductive invariant. Neither property is inductive by itself: what an error path may release depends on what has been acquired when the failure happens. So `IInv` states:
  - while initialize runs, `live` is the prefix of `AcquisitionOrder` of length `HeldBefore[next]`;
  - after success, it is all of `AcquisitionOrder`;
  - on an error path, `live` and `toFree` are injective, and every pending release is of a held object;
  - during and after shutdown, `live` is a prefix and `toFree` is its reversal.
- `FailFacts`, one case per point: each of the 28 error paths (`Unwind`) is injective and releases only objects of the prefix held at its point. `InitUnwind`, `V4Unwind`, `V6Unwind` and `Wg0Unwind` resolve the `CASE` and `IndexIn` of `Unwind` for each group of points.
- `AcquireFacts`: a call keeps the count held, and an acquisition adds the next object of `AcquisitionOrder`. `ShutdownIsReverse`: `ShutdownOrder = Reverse(AcquisitionOrder)`.
- Sequence lemmas:
  - `RemoveFirstInjective` and `RemoveAtInjective`: a put removes exactly its object from an injective `live`.
  - `TailInjective` and `ReverseProperties`: the pending list shrinks the same way. The head of a reversal is the last element held.
  - `PrefixFacts`, `PrefixAppend` and `ConcatInjective`.
- `IInvStep` has one case per action.

TLC checked `LoopInv`, `IdleInv`, `FlushInv`, `RouteInv` and `IInv` as invariants of the `wds_prefix`, `netlink_flush_clean` and `netlink_ownership` instances before the proofs.

### Only model-checked

- All liveness: `TeardownLeadsToRelease`, `NetworkEndLeadsToRelease`, `ExitLeadsToTermination`, `GetRuntimeSettingsReturns`. TLAPS does not reason about fairness or ENABLED.
- That the mask-0 answer never returns (the `zero_mask_hang` violation) is liveness, which the contract leaves out.

## 5. Not modelled, and why

- **The QMI payload data beyond what a property uses.** DNS servers, MTU, and gateway addresses are not modelled; addresses are model values, and only the mask and the IPv6 prefix lengths are numbers.
- **The `refresh` branch of `mm_apply_ipv{4,6}_runtime_settings`.** Every call site passes `refresh = false`, so the branch is dead code.
- **`mm_netlink_ensure_v4_configuration_is_applied`** (netlink.c:403). Nothing calls it.
- **Byte order of the addresses** handed to libnl. It is a formatting detail no property distinguishes.
- **The reference churn of `mm_netlink_reload_link_cache`** (the put and re-get of the link objects). `NetlinkResources` models initialise and shutdown; a reload replaces a reference with a fresh one and does not change what is held.
- **Operating modes other than ONLINE and LOW_POWER.** The code tells only ONLINE from the rest; `mm_dms_get_operation_mode_string` only formats them for the log.
- **Memory ordering of the unsynchronised flags.** The model assumes that every write is seen at once.
- **Headers and the build.** They have no behaviour.

## 6. Assumptions

- `SettingsAssumption`: the mask is at most 32 bits wide (it is a `uint32_t`), and IPv6 prefix lengths are in 0..128.
- The modem ends a client's sessions and discards its pending indications when the client is released (`WdsShutdown`).
- lite-qmi, which is not under src, unpacks the StartDataSession reply on the main thread, after the request returns. The reader thread may deliver indications to the client meanwhile (`StartSession` / `StartSessionReply`).
- A failed `CtlService_ShutDownRegularService` (lite-qmi) may or may not have unregistered the client, so `AutoconnectSetup.ShutdownClient` allows either.
- A StopDataSession on a session that already ended returns `QMI_NO_EFFECT`.
- After a host stop, the modem's DISCONNECTED carries reason 2 or the verbose reason (3, 2000), as spec 8.5 says.
- Kernel: putting a link down removes its IPv6 addresses and its routes; an `rtnl_addr_add` without `NLM_F_REPLACE` of an address already present fails; a gateway route through a down link is refused.
- The modem may send packet-service-status indications to any attached WDS client, the autoconnect setup client included.
- A signal handler installed without `SA_RESTART` makes a blocked `waitpid` fail with EINTR (POSIX).
- A transport error of a QMI request may come after the modem acted on it.
- A modem under a hardware-controlled lock does not change its operating mode on SetPower.

## 7. Plan

1. An abstract session-lifecycle specification, with `Supervisor` shown to refine it.
2. A composition of `WwanNetlink` with the session actions of `Supervisor`, so that the address hazards and the indication race meet in one state space.
3. The ref churn of `mm_netlink_reload_link_cache` added to `NetlinkResources`.
