-------------------------- MODULE WdsRuntimeSettings --------------------------
(***************************************************************************)
(* mm_wds_get_runtime_settings (src/unnamed/part_008, wds.c): one          *)
(* GetRuntimeSettings request and the unpacking of its answer into the     *)
(* session's settings.  The IPv4 prefix length is derived from the subnet *)
(* mask by a loop that shifts the mask right until its lowest bit is set,  *)
(* one step of the model per iteration, so that what the loop computes and *)
(* whether it ends are both visible.  The mask is Width bits wide (32 in   *)
(* the code: uint32_t SubnetMaskV4).                                       *)
(***************************************************************************)
EXTENDS Integers

CONSTANTS
    Width,        \* bits of SubnetMaskV4
    Masks,        \* subnet masks the modem may send
    V6Prefixes,   \* IPv6 prefix lengths the modem may send
    PrefixFloor   \* lowest prefix_length the model tracks in the loop

\* The mask is a uint32_t: no width above 32 is meant.
ASSUME SettingsAssumption ==
    /\ Width \in 1 .. 32
    /\ Masks \subseteq 0 .. (2^Width - 1)
    /\ V6Prefixes \subseteq 0 .. 128
    /\ PrefixFloor \in Int /\ PrefixFloor < 0

Fam == {"v4", "v6"}

\* ParamPresenceMask bits the function reads: 30 IPv4 address, 32 IPv4
\* gateway, 33 IPv4 subnet mask, 37 IPv6 address, 38 IPv6 gateway.
PresenceBits == {30, 32, 33, 37, 38}

VARIABLES
    pc,           \* "idle", "shift" (in the mask loop) or "done"
    family,       \* session->family of the session asking
    status,       \* returned: eQCWWAN_ERR_NONE ("none") or an error
    sentMask,     \* SubnetMaskV4 as the modem sent it
    sentAddrLen,  \* IPV6AddrInfo.IPV6PrefixLen as the modem sent it
    sentGwLen,    \* IPV6GWAddrInfo.gwV6PrefixLen as the modem sent it
    mask,         \* resp.SubnetMaskV4, shifted in place by the loop
    prefix,       \* settings->prefix_length
    addrPresent,  \* *address_present
    gwPresent     \* *gateway_present

vars == <<pc, family, status, sentMask, sentAddrLen, sentGwLen, mask, prefix,
          addrPresent, gwPresent>>

TypeOK ==
    /\ pc \in {"idle", "shift", "done"}
    /\ family \in Fam
    /\ status \in {"none", "send_error", "tlv_error"}
    /\ sentMask \in Masks /\ mask \in 0 .. (2^Width - 1)
    /\ sentAddrLen \in V6Prefixes /\ sentGwLen \in V6Prefixes
    /\ prefix \in PrefixFloor .. Width \cup V6Prefixes
    /\ addrPresent \in BOOLEAN /\ gwPresent \in BOOLEAN

Init ==
    /\ pc = "idle"
    /\ family \in Fam
    /\ status = "none"
    /\ sentMask \in Masks /\ mask = 0
    /\ sentAddrLen \in V6Prefixes /\ sentGwLen \in V6Prefixes
    /\ prefix = 0
    /\ addrPresent = FALSE /\ gwPresent = FALSE

\* Mutant: the test settings->prefix_length && dropped, so a gateway TLV
\* after an absent address TLV is taken for a disagreement.
V6PrefixWithoutZeroTest(pres, addrLen, gwLen) ==
    LET fromAddr == IF 37 \in pres THEN addrLen ELSE 0
    IN  IF 38 \in pres /\ fromAddr = gwLen THEN gwLen ELSE fromAddr

\* The IPv6 prefix: the address TLV's length, replaced by the gateway TLV's
\* unless the address gave a non-zero one that differs (then it is logged).
V6Prefix(pres, addrLen, gwLen) ==
    LET fromAddr == IF 37 \in pres THEN addrLen ELSE 0
    IN  IF 38 \in pres /\ ~(fromAddr # 0 /\ fromAddr # gwLen)
          THEN gwLen ELSE fromAddr

\* The request and the unpacking up to the mask loop.  The settings and
\* both flags are cleared first; a failed request or a TLV error returns
\* with them cleared.  IPv4 fields count only for an AF_INET session and
\* IPv6 ones only for an AF_INET6 session; with the IPv4 gateway and mask
\* present the prefix starts at Width and the loop is entered.
GetRuntimeSettings ==
    /\ pc = "idle"
    /\ \/ /\ status' \in {"send_error", "tlv_error"}
          /\ pc' = "done"
          /\ UNCHANGED <<mask, prefix, addrPresent, gwPresent>>
       \/ \E pres \in SUBSET PresenceBits :
          /\ status' = "none"
          /\ IF family = "v4"
               THEN /\ addrPresent' = (30 \in pres)
                    /\ gwPresent' = ({32, 33} \subseteq pres)
                    /\ IF gwPresent'
                         THEN pc' = "shift" /\ mask' = sentMask /\ prefix' = Width
                         ELSE pc' = "done" /\ UNCHANGED <<mask, prefix>>
               ELSE /\ addrPresent' = (37 \in pres)
                    /\ gwPresent' = (38 \in pres)
                    /\ prefix' = V6Prefix(pres, sentAddrLen, sentGwLen)
                    /\ pc' = "done"
                    /\ UNCHANGED mask
    /\ UNCHANGED <<family, sentMask, sentAddrLen, sentGwLen>>

\* Mutant: the loop tests bit 1 (& 0x2) instead of bit 0.
DeriveV4PrefixTestingBit1 ==
    /\ pc = "shift"
    /\ IF (mask \div 2) % 2 = 1
         THEN pc' = "done" /\ UNCHANGED <<mask, prefix>>
         ELSE /\ mask' = mask \div 2
              /\ prefix' = IF prefix > PrefixFloor THEN prefix - 1 ELSE prefix
              /\ UNCHANGED pc
    /\ UNCHANGED <<family, status, sentMask, sentAddrLen, sentGwLen,
                   addrPresent, gwPresent>>

\* Mutant: the mask shifted left (<< 1) instead of right.
DeriveV4PrefixShiftingLeft ==
    /\ pc = "shift"
    /\ IF mask % 2 = 1
         THEN pc' = "done" /\ UNCHANGED <<mask, prefix>>
         ELSE /\ mask' = (mask * 2) % 2^Width
              /\ prefix' = IF prefix > PrefixFloor THEN prefix - 1 ELSE prefix
              /\ UNCHANGED pc
    /\ UNCHANGED <<family, status, sentMask, sentAddrLen, sentGwLen,
                   addrPresent, gwPresent>>

\* One test of while (!(resp.SubnetMaskV4 & 0x1)): leave the loop, or shift
\* the mask right and decrement prefix_length.  Below PrefixFloor further
\* decrements are not tracked (the loop goes on without changing state).
DeriveV4Prefix ==
    /\ pc = "shift"
    /\ IF mask % 2 = 1
         THEN pc' = "done" /\ UNCHANGED <<mask, prefix>>
         ELSE /\ mask' = mask \div 2
              /\ prefix' = IF prefix > PrefixFloor THEN prefix - 1 ELSE prefix
              /\ UNCHANGED pc
    /\ UNCHANGED <<family, status, sentMask, sentAddrLen, sentGwLen,
                   addrPresent, gwPresent>>

\* The function has returned; the caller goes on without this model.
Returned ==
    /\ pc = "done"
    /\ UNCHANGED vars

Next == GetRuntimeSettings \/ DeriveV4Prefix \/ Returned

\* The main thread runs the function to its end (the request has a timeout).
Spec == Init /\ [][Next]_vars /\ WF_vars(GetRuntimeSettings \/ DeriveV4Prefix)

-----------------------------------------------------------------------------
(* Reference definitions and properties.                                   *)

\* The mask with k leading one bits: the subnet mask of a /k network.
ContiguousMask(k) == 2^Width - 2^(Width - k)

\* The number of zero bits below the lowest set bit of a non-zero m.
TrailingZeros(m) == CHOOSE z \in 0 .. Width : m % 2^z = 0 /\ (m \div 2^z) % 2 = 1

\* spec.md (GetRuntimeSettings, testable property 4): for an IPv4 session
\* whose answer carried gateway and mask, the prefix length is Width minus
\* the mask's trailing zero bits, which for a /k mask is k.
V4PrefixMatchesMask ==
    pc = "done" /\ status = "none" /\ family = "v4" /\ gwPresent =>
        /\ sentMask # 0 => prefix = Width - TrailingZeros(sentMask)
        /\ \A k \in 0 .. Width : sentMask = ContiguousMask(k) => prefix = k

\* mm_wds_get_runtime_settings returns to its caller (run_up_ipv4 would
\* otherwise hang in the mask loop with both WDS clients attached).
GetRuntimeSettingsReturns == <>(pc = "done")

\* The contract of GetRuntimeSettings (WdsSettingsContract) seen through
\* the function: while the mask loop runs, the call has not answered yet,
\* and the settings it has written so far are not visible to the caller.
Contract == INSTANCE WdsSettingsContract WITH
    pc <- IF pc = "shift" THEN "idle" ELSE pc,
    prefix <- IF pc = "shift" THEN 0 ELSE prefix,
    addrPresent <- IF pc = "shift" THEN FALSE ELSE addrPresent,
    gwPresent <- IF pc = "shift" THEN FALSE ELSE gwPresent

\* mm_wds_get_runtime_settings implements the GetRuntimeSettings contract of
\* spec.md: every answer it returns carries the fields of the session's
\* family, the IPv4 prefix being 32 minus the mask's trailing zero bits and
\* the IPv6 one the address TLV's, preferred to a disagreeing gateway TLV.
RefinesContract == Contract!Spec

====
