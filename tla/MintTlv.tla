------------------------------- MODULE MintTlv -------------------------------
(***************************************************************************)
(* How the adapter finds the transfer fee in a mint's bytes (token.rs,     *)
(* transfer_fee_config): past the account type, a list of entries, each a  *)
(* type and a length and then a body of that length, in whatever order     *)
(* they were initialised.  The bytes may stop anywhere, as they would if a *)
(* fetch was cut short.                                                    *)
(*                                                                         *)
(* Offsets are the real ones; a body is no more than its length, and the   *)
(* schedules read are known by the entry they came from.                   *)
(***************************************************************************)
EXTENDS Integers, Sequences

CONSTANTS
  TypeIndex, TlvStart,  \* ACCOUNT_TYPE_INDEX, TLV_START
  HeaderLen,            \* a type and a length: 4
  ConfigNeeds,          \* what the two schedules and all before them take: 108
  Lengths,              \* bodies an entry may have
  MaxEntries,           \* bound on the entries of a mint
  Cuts                  \* bytes that may be missing at the end

ASSUME LayoutAssumption ==
  /\ TypeIndex \in Nat /\ TlvStart \in Nat /\ TypeIndex < TlvStart
  /\ HeaderLen \in Nat \ {0} /\ ConfigNeeds \in Nat /\ MaxEntries \in Nat
  /\ Lengths \subseteq Nat /\ Cuts \subseteq Nat

Entries == [kind : {"TransferFeeConfig", "other"}, length : Lengths]
EntryLists == UNION {[1 .. n -> Entries] : n \in 0 .. MaxEntries}

VARIABLES
  isMint,  \* the byte at ACCOUNT_TYPE_INDEX is AccountType::Mint
  tlv,     \* the entries as they were written
  size,    \* data.len()
  phase,   \* "start", "walking" or "done"
  cursor,
  touched, \* history: one past the highest byte read
  result   \* the entry the schedules came from, or NotFound

tlvVars == <<isMint, tlv, size, phase, cursor, touched, result>>
data == <<isMint, tlv, size>>

NotFound == 0

StartOf(k) ==
  LET start[n \in 1 .. Len(tlv) + 1] ==
        IF n = 1 THEN TlvStart ELSE start[n - 1] + HeaderLen + tlv[n - 1].length
  IN  start[k]
Whole == StartOf(Len(tlv) + 1)

(* The entry whose header is at the cursor, where there is one.            *)
AtEntry == {k \in DOMAIN tlv : StartOf(k) = cursor}

TlvInit ==
  /\ isMint \in BOOLEAN
  /\ tlv \in EntryLists
  /\ size \in {Whole - c : c \in Cuts} \cap Nat
  /\ phase = "start" /\ cursor = 0 /\ touched = 0 /\ result = NotFound

Finish(found) == phase' = "done" /\ result' = found /\ UNCHANGED cursor
Touch(end) == touched' = IF end > touched THEN end ELSE touched

(* No extensions, or no mint.                                              *)
NoList == size <= TlvStart \/ ~isMint

Open ==
  /\ phase = "start"
  /\ IF NoList THEN Finish(NotFound)
     ELSE phase' = "walking" /\ cursor' = TlvStart /\ UNCHANGED result
  /\ Touch(IF size <= TlvStart THEN 0 ELSE TypeIndex + 1)
  /\ UNCHANGED data

EndOfData ==
  /\ phase = "walking" /\ cursor + HeaderLen > size
  /\ Finish(NotFound)
  /\ UNCHANGED <<data, touched>>

(* Mutant: the length of an entry is believed.                             *)
Trusting(body, length) == FALSE
Truncated(body, length) == body + length > size
TooShort(length) == length < ConfigNeeds

(* Mutant: the length is counted from the header.                          *)
FromHeader(body, length) == body - HeaderLen + length

Following(body, length) == body + length

(* Mutant: an entry is told by its size.                                   *)
BySize(k) == tlv[k].length >= ConfigNeeds
IsConfig(k) == tlv[k].kind = "TransferFeeConfig"

ReadEntry(k) ==
  LET body == cursor + HeaderLen
      length == tlv[k].length
  IN  /\ phase = "walking" /\ cursor + HeaderLen <= size /\ k \in AtEntry
      /\ IF Truncated(body, length) \/ (IsConfig(k) /\ TooShort(length))
         THEN Finish(NotFound) /\ Touch(body)
         ELSE IF IsConfig(k) THEN Finish(k) /\ Touch(body + ConfigNeeds)
         ELSE /\ cursor' = Following(body, length)
              /\ Touch(body)
              /\ UNCHANGED <<phase, result>>
      /\ UNCHANGED data

TlvNext == Open \/ EndOfData \/ (\E k \in DOMAIN tlv : ReadEntry(k))

TlvSpec == TlvInit /\ [][TlvNext]_tlvVars

(* The walk is a loop without anything to wait for.                        *)
FairTlvSpec == TlvSpec /\ WF_tlvVars(TlvNext)

-----------------------------------------------------------------------------
(***************************************************************************)
(* Properties.                                                             *)
(***************************************************************************)
(* No byte past the end is ever read, wherever the data stops: the reader  *)
(* returns, where an index out of bounds would end the router's thread.    *)
InBounds == touched <= size

(* Data that was cut short reads as no fee or as the fee it had: the       *)
(* schedules only ever come from the first entry of their type.  And a     *)
(* whole mint's fee is found, whatever other extensions come before it: a  *)
(* fee that was missed would be quoted as none.                            *)
Configs == {k \in DOMAIN tlv : tlv[k].kind = "TransferFeeConfig"}
FailsClosed == result # NotFound => result \in Configs /\ \A k \in Configs : result <= k
FeeIsFound ==
  phase = "done" /\ isMint /\ size = Whole /\ result = NotFound =>
    \A k \in Configs : \E j \in Configs : j <= k /\ tlv[j].length < ConfigNeeds
FeeIsRead == FailsClosed /\ FeeIsFound

(* The walk ends on every mint, empty bodies included: the cursor only     *)
(* ever stops at the head of an entry or at the end.                       *)
Ends == <>(phase = "done")
=============================================================================
