------------------------- MODULE WdsSettingsContract --------------------------
(***************************************************************************)
(* What GetRuntimeSettings promises (spec.md, Runtime Settings and        *)
(* GetRuntimeSettings), as one step: the request fails and leaves the      *)
(* settings cleared, or it answers and fills in the fields of the         *)
(* session's family.  For IPv4 the prefix length is Width minus the       *)
(* mask's trailing zero bits (0 for the /0 mask, testable property 4);    *)
(* for IPv6 it is the address TLV's, which wins over a disagreeing        *)
(* gateway TLV.  This is a safety contract: it says what an answer        *)
(* carries, not that one comes.                                            *)
(***************************************************************************)
EXTENDS Integers

CONSTANTS Width, Masks, V6Prefixes

Fam == {"v4", "v6"}
PresenceBits == {30, 32, 33, 37, 38}

VARIABLES
    pc, family, status,
    sentMask, sentAddrLen, sentGwLen,   \* the modem's answer
    prefix, addrPresent, gwPresent

vars == <<pc, family, status, sentMask, sentAddrLen, sentGwLen, prefix,
          addrPresent, gwPresent>>

Init ==
    /\ pc = "idle"
    /\ family \in Fam
    /\ status = "none"
    /\ sentMask \in Masks
    /\ sentAddrLen \in V6Prefixes /\ sentGwLen \in V6Prefixes
    /\ prefix = 0
    /\ addrPresent = FALSE /\ gwPresent = FALSE

\* trailing_zero_bits(m) of a non-zero m.
TrailingZeroBits(m) == CHOOSE z \in 0 .. Width : m % 2^z = 0 /\ (m \div 2^z) % 2 = 1

\* The prefix length a subnet mask encodes.
MaskPrefix(m) == IF m = 0 THEN 0 ELSE Width - TrailingZeroBits(m)

\* The IPv6 prefix length: the address's when it reports one, else the
\* gateway's.
AddressPrefixWins(pres, addrLen, gwLen) ==
    IF 37 \in pres /\ addrLen # 0 THEN addrLen
    ELSE IF 38 \in pres THEN gwLen ELSE 0

Fail ==
    /\ pc = "idle"
    /\ status' \in {"send_error", "tlv_error"}
    /\ pc' = "done"
    /\ UNCHANGED <<family, sentMask, sentAddrLen, sentGwLen, prefix,
                   addrPresent, gwPresent>>

Answer ==
    /\ pc = "idle"
    /\ status' = "none" /\ pc' = "done"
    /\ \E pres \in SUBSET PresenceBits :
         IF family = "v4"
           THEN /\ addrPresent' = (30 \in pres)
                /\ gwPresent' = ({32, 33} \subseteq pres)
                /\ prefix' = IF gwPresent' THEN MaskPrefix(sentMask) ELSE prefix
           ELSE /\ addrPresent' = (37 \in pres)
                /\ gwPresent' = (38 \in pres)
                /\ prefix' = AddressPrefixWins(pres, sentAddrLen, sentGwLen)
    /\ UNCHANGED <<family, sentMask, sentAddrLen, sentGwLen>>

Next == Fail \/ Answer

Spec == Init /\ [][Next]_vars

====
