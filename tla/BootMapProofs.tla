---------------------------- MODULE BootMapProofs ----------------------------
(***************************************************************************)
(* Theorems about the loader and what it hands over: for every firmware,   *)
(* buffer and table size that meet the assumptions, the kernel's region    *)
(* tables are those of the firmware's list.                                *)
(*                                                                         *)
(* While the loader asks, the buffer holds what was reported in the        *)
(* answers so far; which answer an entry came from is the witness place of *)
(* MapIsFirmwareList, one longer with every entry kept.  From the          *)
(* hand-over on, the steps are those of PhysicalMemory and its invariant   *)
(* applies, because the map handed over is one it allows for.              *)
(***************************************************************************)
EXTENDS BootMap, PhysicalMemoryProofs, SequenceTheorems

-----------------------------------------------------------------------------
(***************************************************************************)
(* The inductive invariant.                                                *)
(***************************************************************************)

\* The entries a firmware answers with, and how many of them the loader can
\* keep.
Entries(f) == {f.replies[k].entry : k \in DOMAIN f.replies}
Room(f) == Min({Len(f.replies), MAX_E820_ENTRIES})

LoaderTypeOK ==
    /\ firmware \in Firmwares
    /\ loader \in {"asking", "done"}
    /\ attributes \in [1 .. MAX_E820_ENTRIES -> Attributes]
    /\ ebx \in 0 .. Len(firmware.replies)
    /\ memory_map \in Seq(Entries(firmware))
    /\ Len(memory_map) <= MAX_E820_ENTRIES

\* The buffer has what was reported in the first n answers, in their order.
Gathered(n) ==
    \E place \in [DOMAIN memory_map -> Reported] :
       /\ \A j, k \in DOMAIN memory_map : j < k => place[j] < place[k]
       /\ \A k \in DOMAIN memory_map : AsReported(k, firmware.replies[place[k]])
       /\ Range(place) = {m \in Reported : m <= n}

\* What is true between two calls of int 0x15: the ebx answers so far could
\* be believed, and the kernel has not started.
Asking ==
    /\ \A k \in 1 .. ebx : Believable(firmware.replies[k])
    /\ Len(memory_map) <= ebx
    /\ Gathered(ebx)
    /\ step = "scan" /\ i = 1
    /\ usable_regions = <<>> /\ reserved_regions = <<>>

LoaderInv ==
    /\ LoaderTypeOK
    /\ loader = "asking" => Asking
    /\ MapIsFirmwareList

BootInv == LoaderInv /\ MemInv

-----------------------------------------------------------------------------
(***************************************************************************)
(* Firmwares and the maps gathered from them.                              *)
(***************************************************************************)

LEMMA SmallerOfTwo ==
    ASSUME NEW a \in Nat, NEW b \in Nat
    PROVE  /\ Min({a, b}) \in {a, b}
           /\ Min({a, b}) <= a /\ Min({a, b}) <= b
  <1>1. \E x \in {a, b} : \A y \in {a, b} : x <= y
    OBVIOUS
  <1> QED
    BY <1>1 DEF Min

LEMMA FirmwareFacts ==
    ASSUME NEW f \in Firmwares
    PROVE  /\ f.replies \in Seq(Reply)
           /\ Len(f.replies) \in Nat
           /\ DOMAIN f.replies = 1 .. Len(f.replies)
           /\ \A k \in 1 .. Len(f.replies) :
                 /\ f.replies[k] \in Reply
                 /\ f.replies[k].entry \in Entries(f)
                 /\ f.replies[k].attributes \in Attributes
           /\ Entries(f) \subseteq Entry
           /\ MAX_E820_ENTRIES \in Nat \ {0}
  <1>1. f.replies \in Seq(Reply) /\ MAX_E820_ENTRIES \in Nat \ {0}
    BY BootMapAssumption DEF Firmware
  <1>2. /\ Len(f.replies) \in Nat /\ DOMAIN f.replies = 1 .. Len(f.replies)
        /\ \A k \in 1 .. Len(f.replies) : f.replies[k] \in Reply
    BY <1>1
  <1> QED
    BY <1>1, <1>2 DEF Reply, Entries

\* The kernel can be handed any sequence of a firmware's entries that fits.
LEMMA GatheredMaps ==
    ASSUME NEW f \in Firmwares, NEW s \in Seq(Entries(f)),
           Len(s) <= Len(f.replies), Len(s) <= MAX_E820_ENTRIES
    PROVE  s \in MemoryMaps
  <1> DEFINE n == Room(f)
             S == Entries(f)
  <1>1. BoundedSeq(S, n) \subseteq MemoryMaps
    BY BootMapAssumption DEF Entries, Room
  <1>2. n \in Nat /\ Len(s) \in Nat /\ Len(s) <= n
    BY FirmwareFacts, SmallerOfTwo DEF Room
  <1>3. s \in [1 .. Len(s) -> S]
    OBVIOUS
  <1> HIDE DEF n, S
  <1>4. s \in BoundedSeq(S, n)
    <2>1. Len(s) \in 0 .. n
      BY <1>2
    <2> QED
      BY <1>3, <2>1 DEF BoundedSeq, SeqOf
  <1> QED
    BY <1>1, <1>4

\* The loader accepts the answers that can be believed.
LEMMA AcceptedIsBelievable ==
    ASSUME NEW r \in Reply
    PROVE  Believable(r) <=> r.smap /\ r.size >= SHORT_ENTRY_SIZE
  <1>1. r.size \in {16, 20, 24}
    BY DEF Reply, TRUNCATED_SIZE, SHORT_ENTRY_SIZE, E820_ENTRY_SIZE
  <1>2. r.size # 16 <=> r.size >= 20
    BY <1>1
  <1> QED
    BY <1>2 DEF Believable, TRUNCATED_SIZE, SHORT_ENTRY_SIZE

-----------------------------------------------------------------------------
(***************************************************************************)
(* One call of int 0x15.                                                   *)
(***************************************************************************)

\* An answer is one of the firmware's, and goes to a slot of the buffer.
LEMMA CallFacts ==
    ASSUME LoaderTypeOK, ~ carry, ~ e820_table_full
    PROVE  /\ ebx + 1 \in 1 .. Len(firmware.replies)
           /\ reply \in Reply
           /\ reply.entry \in Entries(firmware)
           /\ slot \in 1 .. MAX_E820_ENTRIES
           /\ slot_attributes \in Attributes
           /\ accepted <=> Believable(firmware.replies[ebx + 1])
  <1>1. /\ firmware \in Firmwares /\ ebx \in 0 .. Len(firmware.replies)
        /\ Len(memory_map) \in Nat /\ Len(firmware.replies) \in Nat
        /\ MAX_E820_ENTRIES \in Nat
    BY FirmwareFacts DEF LoaderTypeOK
  <1>2. ebx + 1 \in 1 .. Len(firmware.replies)
    BY <1>1 DEF carry
  <1>3. reply \in Reply /\ reply.entry \in Entries(firmware) /\ reply.attributes \in Attributes
    BY <1>1, <1>2, FirmwareFacts DEF reply
  <1>4. slot \in 1 .. MAX_E820_ENTRIES
    BY <1>1 DEF slot, e820_table_full
  <1>5. slot_attributes \in Attributes
    BY <1>3 DEF slot_attributes, Attributes
  <1>6. accepted <=> Believable(reply)
    BY <1>3, AcceptedIsBelievable DEF accepted
  <1> QED
    BY <1>2, <1>3, <1>4, <1>5, <1>6 DEF reply

\* Writing to the slot at di leaves the slots before it alone.
LEMMA SlotsBefore ==
    ASSUME LoaderTypeOK, slot \in 1 .. MAX_E820_ENTRIES, NEW a \in Attributes,
           attributes' = [attributes EXCEPT ![slot] = a]
    PROVE  /\ attributes' \in [1 .. MAX_E820_ENTRIES -> Attributes]
           /\ attributes'[slot] = a
           /\ \A k \in DOMAIN memory_map : attributes'[k] = attributes[k]
  <1>1. /\ DOMAIN memory_map = 1 .. Len(memory_map) /\ Len(memory_map) \in Nat
        /\ attributes \in [1 .. MAX_E820_ENTRIES -> Attributes]
        /\ MAX_E820_ENTRIES \in Nat /\ Len(memory_map) <= MAX_E820_ENTRIES
    BY FirmwareFacts DEF LoaderTypeOK
  <1>2. \A k \in DOMAIN memory_map : k # slot /\ k \in 1 .. MAX_E820_ENTRIES
    BY <1>1 DEF slot
  <1> QED
    BY <1>1, <1>2

\* The loop ends with the buffer as it is: nothing is missing that there was
\* room for, because the buffer is full or what follows was never reported.
LEMMA NothingMissing ==
    ASSUME LoaderInv, loader = "asking",
           UNCHANGED <<memory_map, firmware>>,
           \A k \in DOMAIN memory_map : attributes'[k] = attributes[k],
           \/ e820_table_full
           \/ \A m \in Reported : m <= ebx
    PROVE  MapIsFirmwareList'
  <1>1. PICK place \in [DOMAIN memory_map -> Reported] :
           /\ \A j, k \in DOMAIN memory_map : j < k => place[j] < place[k]
           /\ \A k \in DOMAIN memory_map : AsReported(k, firmware.replies[place[k]])
           /\ Range(place) = {m \in Reported : m <= ebx}
    BY DEF LoaderInv, Asking, Gathered
  <1>2. /\ Len(memory_map) \in Nat /\ Len(memory_map) <= MAX_E820_ENTRIES
        /\ MAX_E820_ENTRIES \in Nat /\ ebx \in Nat
        /\ DOMAIN firmware.replies = 1 .. Len(firmware.replies)
    BY FirmwareFacts DEF LoaderInv, LoaderTypeOK
  <1>3. Reported' = Reported /\ Reported \subseteq Nat
    BY <1>2 DEF Reported, Believable
  <1>4. \A k \in DOMAIN memory_map : AsReported(k, firmware.replies[place[k]])'
    BY <1>1 DEF AsReported
  <1>5. ASSUME NEW m \in Reported \ Range(place)
        PROVE  /\ Len(memory_map) = MAX_E820_ENTRIES
               /\ \A k \in DOMAIN memory_map : place[k] < m
    <2>1. m \in Nat /\ ~ (m <= ebx)
      BY <1>1, <1>3, <1>5
    <2>2. e820_table_full
      BY <2>1, <1>5
    <2>3. Len(memory_map) = MAX_E820_ENTRIES
      BY <2>2, <1>2 DEF e820_table_full
    <2>4. ASSUME NEW k \in DOMAIN memory_map
          PROVE  place[k] < m
      <3>1. place[k] \in Range(place)
        BY <1>1 DEF Range
      <3>2. place[k] \in Nat /\ place[k] <= ebx
        BY <1>1, <1>3, <3>1
      <3> QED
        BY <2>1, <3>2, <1>2
    <2> QED
      BY <2>3, <2>4
  <1> QED
    BY <1>1, <1>2, <1>3, <1>4, <1>5 DEF MapIsFirmwareList, AsReported

LEMMA BufferFullKeeps ==
    ASSUME LoaderInv, BufferFull
    PROVE  LoaderInv'
  <1>1. LoaderTypeOK'
    BY DEF LoaderInv, LoaderTypeOK, BufferFull, memVars
  <1>2. MapIsFirmwareList'
    BY NothingMissing DEF BufferFull, memVars
  <1> QED
    BY <1>1, <1>2 DEF LoaderInv, BufferFull

LEMMA StopAskingKeeps ==
    ASSUME LoaderInv, StopAsking
    PROVE  LoaderInv'
  <1>1. /\ LoaderTypeOK /\ Asking /\ loader = "asking" /\ ~ e820_table_full
        /\ UNCHANGED <<memory_map, firmware, ebx>> /\ loader' = "done"
    BY DEF LoaderInv, StopAsking, memVars
  <1>2. slot \in 1 .. MAX_E820_ENTRIES
    BY <1>1, FirmwareFacts DEF LoaderTypeOK, slot, e820_table_full
  <1>3. PICK a \in Attributes : attributes' = [attributes EXCEPT ![slot] = a]
    <2>1. CASE carry
      BY <2>1 DEF StopAsking, Attributes
    <2>2. CASE ~ carry
      BY <1>1, <2>2, CallFacts DEF StopAsking
    <2> QED
      BY <2>1, <2>2
  <1>4. /\ attributes' \in [1 .. MAX_E820_ENTRIES -> Attributes]
        /\ \A k \in DOMAIN memory_map : attributes'[k] = attributes[k]
    BY <1>1, <1>2, <1>3, SlotsBefore
  <1>5. \A m \in Reported : m <= ebx
    <2> SUFFICES ASSUME NEW m \in Reported, ~ (m <= ebx)
                 PROVE  FALSE
      OBVIOUS
    <2>1. /\ ebx \in Nat /\ Len(firmware.replies) \in Nat
          /\ m \in 1 .. Len(firmware.replies)
          /\ \A j \in 1 .. m : Believable(firmware.replies[j])
      BY <1>1, FirmwareFacts DEF LoaderTypeOK, Reported
    <2>2. ~ carry
      BY <2>1 DEF carry
    <2>3. ~ Believable(firmware.replies[ebx + 1])
      BY <1>1, <2>2, CallFacts DEF StopAsking
    <2> QED
      BY <2>1, <2>3
  <1>6. LoaderTypeOK'
    BY <1>1, <1>4 DEF LoaderTypeOK
  <1>7. MapIsFirmwareList'
    BY <1>1, <1>4, <1>5, NothingMissing
  <1> QED
    BY <1>1, <1>6, <1>7 DEF LoaderInv

-----------------------------------------------------------------------------
(***************************************************************************)
(* An answer that is kept, or skipped because its entry is empty.          *)
(***************************************************************************)

\* What was reported up to an answer that can be believed.
LEMMA ReportedSoFar ==
    ASSUME LoaderTypeOK, Asking, ebx + 1 \in 1 .. Len(firmware.replies),
           Believable(firmware.replies[ebx + 1])
    PROVE  /\ \A k \in 1 .. (ebx + 1) : Believable(firmware.replies[k])
           /\ {m \in Reported : m <= ebx + 1} =
                 {m \in Reported : m <= ebx} \cup
                 (IF firmware.replies[ebx + 1].entry.length = 0 THEN {} ELSE {ebx + 1})
  <1>1. /\ ebx \in Nat /\ Len(firmware.replies) \in Nat
        /\ DOMAIN firmware.replies = 1 .. Len(firmware.replies)
    BY FirmwareFacts DEF LoaderTypeOK
  <1>2. \A k \in 1 .. (ebx + 1) : Believable(firmware.replies[k])
    <2>1. \A k \in 1 .. (ebx + 1) : k \in 1 .. ebx \/ k = ebx + 1
      BY <1>1
    <2> QED
      BY <2>1 DEF Asking
  <1>3. ebx + 1 \in Reported <=> firmware.replies[ebx + 1].entry.length # 0
    BY <1>1, <1>2 DEF Reported
  <1>4. \A m \in Reported : m <= ebx + 1 <=> m <= ebx \/ m = ebx + 1
    BY <1>1 DEF Reported
  <1> QED
    BY <1>2, <1>3, <1>4

\* The answer after the ones gathered is gathered too.
LEMMA NextGathered ==
    ASSUME LoaderTypeOK, Asking, NextReply, NEW n \in Nat, n = ebx + 1
    PROVE  /\ LoaderTypeOK'
           /\ Len(memory_map') <= n
           /\ \A k \in 1 .. n : Believable(firmware.replies[k])
           /\ Gathered(n)'
  <1> DEFINE r == firmware.replies[n]
             len == Len(memory_map)
  <1>1. /\ ~ e820_table_full /\ ~ carry /\ accepted /\ firmware' = firmware
        /\ attributes' = [attributes EXCEPT ![slot] = slot_attributes]
        /\ memory_map' = IF reply.entry.length = 0 THEN memory_map
                                                  ELSE Append(memory_map, reply.entry)
        /\ ebx' = continuation /\ loader' = after_reply
    BY DEF NextReply
  <1>2. /\ n \in 1 .. Len(firmware.replies) /\ reply = r /\ r \in Reply
        /\ r.entry \in Entries(firmware) /\ Believable(r)
        /\ slot \in 1 .. MAX_E820_ENTRIES /\ slot_attributes \in Attributes
    BY <1>1, CallFacts DEF reply
  <1>3. /\ memory_map \in Seq(Entries(firmware)) /\ len \in Nat
        /\ DOMAIN memory_map = 1 .. len
        /\ len + 1 <= MAX_E820_ENTRIES /\ MAX_E820_ENTRIES \in Nat
        /\ Len(firmware.replies) \in Nat /\ ebx \in Nat /\ len <= ebx
        /\ firmware \in Firmwares
    BY <1>1, <1>2, FirmwareFacts DEF LoaderTypeOK, slot, Asking
  <1>4. /\ attributes' \in [1 .. MAX_E820_ENTRIES -> Attributes]
        /\ attributes'[slot] = slot_attributes
        /\ \A k \in DOMAIN memory_map : attributes'[k] = attributes[k]
    BY <1>1, <1>2, SlotsBefore
  <1>5. slot_attributes = IF r.size = SHORT_ENTRY_SIZE THEN 1 ELSE r.attributes
    <2>1. r.size \in {SHORT_ENTRY_SIZE, E820_ENTRY_SIZE}
      BY <1>2 DEF Believable, Reply
    <2> QED
      BY <1>2, <2>1 DEF slot_attributes, SHORT_ENTRY_SIZE, E820_ENTRY_SIZE
  <1>6. PICK place \in [DOMAIN memory_map -> Reported] :
           /\ \A j, k \in DOMAIN memory_map : j < k => place[j] < place[k]
           /\ \A k \in DOMAIN memory_map : AsReported(k, firmware.replies[place[k]])
           /\ Range(place) = {m \in Reported : m <= ebx}
    BY DEF Asking, Gathered
  <1>7. /\ \A k \in 1 .. n : Believable(firmware.replies[k])
        /\ {m \in Reported : m <= n} =
              Range(place) \cup (IF r.entry.length = 0 THEN {} ELSE {n})
    BY <1>2, <1>6, ReportedSoFar
  <1>8. Reported' = Reported
    BY <1>1 DEF Reported, Believable
  <1>9. /\ ebx' \in 0 .. Len(firmware.replies)
        /\ loader' \in {"asking", "done"}
    BY <1>1, <1>2, <1>3 DEF continuation, after_reply
  <1>10. firmware' = firmware /\ Entries(firmware)' = Entries(firmware) /\ n \in Nat
    BY <1>1, <1>3 DEF Entries
  <1> HIDE DEF r, len
  <1>11. CASE r.entry.length = 0
    <2>1. memory_map' = memory_map
      BY <1>1, <1>2, <1>11
    <2>2. Len(memory_map') <= n /\ Len(memory_map') <= MAX_E820_ENTRIES
      BY <1>3, <1>10, <2>1 DEF len
    <2>3. LoaderTypeOK'
      BY <1>3, <1>4, <1>9, <1>10, <2>1, <2>2 DEF LoaderTypeOK
    <2>4. \A k \in DOMAIN memory_map : AsReported(k, firmware.replies[place[k]])'
      BY <1>1, <1>4, <1>6, <2>1 DEF AsReported
    <2> QED
      BY <1>6, <1>7, <1>8, <1>11, <2>1, <2>2, <2>3, <2>4 DEF Gathered
  <1>12. CASE r.entry.length # 0
    <2>1. memory_map' = Append(memory_map, r.entry)
      BY <1>1, <1>2, <1>12
    <2>2. /\ memory_map' \in Seq(Entries(firmware)) /\ Len(memory_map') = len + 1
          /\ DOMAIN memory_map' = 1 .. (len + 1)
          /\ \A k \in 1 .. len : memory_map'[k] = memory_map[k]
          /\ memory_map'[len + 1] = r.entry
      BY <1>2, <1>3, <2>1, AppendProperties DEF len
    <2>3. LoaderTypeOK' /\ Len(memory_map') <= n
      BY <1>1, <1>3, <1>4, <1>9, <1>10, <2>2 DEF LoaderTypeOK
    <2>4. n \in Reported
      BY <1>7, <1>12
    <2>5. \A k \in 1 .. (len + 1) : k \in 1 .. len \/ k = len + 1
      BY <1>3
    <2>6. \E p : p = [k \in 1 .. (len + 1) |-> IF k \in 1 .. len THEN place[k] ELSE n]
      OBVIOUS
    <2>7. PICK place2 \in [DOMAIN memory_map' -> Reported] :
             /\ place2[len + 1] = n
             /\ \A k \in 1 .. len : place2[k] = place[k]
      <3>1. PICK p : p = [k \in 1 .. (len + 1) |-> IF k \in 1 .. len THEN place[k] ELSE n]
        BY <2>6
      <3>2. /\ \A k \in 1 .. len : k \in 1 .. (len + 1) /\ place[k] \in Reported
            /\ len + 1 \in 1 .. (len + 1) /\ len + 1 \notin 1 .. len
        BY <1>3, <1>6
      <3>3. p[len + 1] = n /\ \A k \in 1 .. len : p[k] = place[k]
        BY <3>1, <3>2
      <3>4. p \in [1 .. (len + 1) -> Reported]
        BY <2>4, <3>1, <3>2
      <3> QED
        BY <2>2, <3>3, <3>4
    <2>8. \A k \in 1 .. len : place[k] \in Nat /\ place[k] < n
      <3>1. \A k \in 1 .. len : place[k] \in Range(place)
        BY <1>3, <1>6 DEF Range
      <3>2. Reported \subseteq Nat
        BY <1>3, FirmwareFacts DEF Reported
      <3>3. \A k \in 1 .. len : place[k] \in Reported /\ place[k] <= ebx
        BY <1>6, <3>1
      <3>4. \A p \in Nat : p <= ebx => p < n
        BY <1>3
      <3> QED
        BY <3>2, <3>3, <3>4
    <2>9. ASSUME NEW j \in DOMAIN memory_map', NEW k \in DOMAIN memory_map', j < k
          PROVE  place2[j] < place2[k]
      <3>1. j \in 1 .. len
        BY <1>3, <2>2, <2>9
      <3>2. CASE k = len + 1
        BY <2>7, <2>8, <3>1, <3>2
      <3>3. CASE k \in 1 .. len
        BY <1>3, <1>6, <2>7, <2>9, <3>1, <3>3
      <3> QED
        BY <2>2, <2>5, <3>2, <3>3
    <2>10. ASSUME NEW k \in DOMAIN memory_map'
           PROVE  AsReported(k, firmware.replies[place2[k]])'
      <3>1. CASE k = len + 1
        <4>1. firmware.replies[place2[k]] = r /\ k = slot
          BY <2>7, <3>1 DEF r, slot, len
        <4> QED
          BY <1>1, <1>4, <1>5, <2>2, <3>1, <4>1 DEF AsReported
      <3>2. CASE k \in 1 .. len
        <4>1. place2[k] = place[k] /\ memory_map'[k] = memory_map[k]
              /\ attributes'[k] = attributes[k]
          BY <1>3, <1>4, <2>2, <2>7, <3>2
        <4> QED
          BY <1>1, <1>3, <1>6, <3>2, <4>1 DEF AsReported
      <3> QED
        BY <2>2, <2>5, <3>1, <3>2
    <2>11. Range(place2) = Range(place) \cup {n}
      BY <1>3, <1>6, <2>2, <2>5, <2>7 DEF Range
    <2>12. Range(place2) = {m \in Reported : m <= n}
      BY <1>7, <1>12, <2>11
    <2>13. Gathered(n)'
      BY <1>8, <2>7, <2>9, <2>10, <2>12 DEF Gathered
    <2> QED
      BY <1>7, <2>3, <2>13
  <1> QED
    BY <1>11, <1>12


LEMMA NextReplyKeeps ==
    ASSUME LoaderInv, NextReply
    PROVE  LoaderInv' /\ MemInit'
  <1>1. PICK n \in Nat : n = ebx + 1
    BY DEF LoaderInv, LoaderTypeOK
  <1>2. /\ LoaderTypeOK /\ Asking /\ loader = "asking"
        /\ UNCHANGED <<firmware, step, i, usable_regions, reserved_regions>>
        /\ ebx' = continuation /\ loader' = after_reply
    BY DEF LoaderInv, NextReply
  <1>3. /\ LoaderTypeOK' /\ Len(memory_map') <= n /\ Gathered(n)'
        /\ \A k \in 1 .. n : Believable(firmware.replies[k])
    BY <1>1, <1>2, NextGathered
  <1>4. /\ ebx \in Nat /\ Len(firmware.replies) \in Nat
        /\ DOMAIN firmware.replies = 1 .. Len(firmware.replies)
    BY <1>2, FirmwareFacts DEF LoaderTypeOK
  <1>5. ASSUME continuation = 0
        PROVE  LoaderInv'
    <2>1. loader' = "done" /\ n = Len(firmware.replies)
      BY <1>1, <1>2, <1>4, <1>5 DEF after_reply, continuation
    <2>2. Reported' = Reported /\ Reported \subseteq 1 .. n
      BY <1>2, <1>4, <2>1 DEF Reported, Believable
    <2>3. PICK place \in [DOMAIN memory_map' -> Reported] :
             /\ \A j, k \in DOMAIN memory_map' : j < k => place[j] < place[k]
             /\ \A k \in DOMAIN memory_map' : AsReported(k, firmware.replies[place[k]])'
             /\ Range(place) = {m \in Reported : m <= n}
      BY <1>3, <2>2 DEF Gathered
    <2>4. Reported \ Range(place) = {}
      <3>1. \A m \in 1 .. n : m <= n
        OBVIOUS
      <3> QED
        BY <2>2, <2>3, <3>1
    <2>5. MapIsFirmwareList'
      BY <1>3, <2>2, <2>3, <2>4 DEF MapIsFirmwareList, LoaderTypeOK
    <2> QED
      BY <1>3, <2>1, <2>5 DEF LoaderInv
  <1>6. ASSUME continuation # 0
        PROVE  LoaderInv'
    <2>1. loader' = "asking" /\ ebx' = n
      BY <1>1, <1>2, <1>6 DEF after_reply, continuation
    <2>2. MapIsFirmwareList'
      BY <2>1 DEF MapIsFirmwareList
    <2>3. (\A k \in 1 .. ebx : Believable(firmware.replies[k]))'
      BY <1>2, <1>3, <2>1 DEF Believable
    <2>4. Gathered(ebx)' /\ (Len(memory_map) <= ebx)'
      BY <1>3, <2>1 DEF Gathered
    <2>5. Asking'
      BY <1>2, <2>3, <2>4 DEF Asking
    <2> QED
      BY <1>3, <2>2, <2>5 DEF LoaderInv
  <1>7. MemInit'
    <2>1. /\ n <= Len(firmware.replies) /\ n \in Nat
          /\ memory_map' \in Seq(Entries(firmware)) /\ Len(memory_map') \in Nat
          /\ Len(memory_map') <= MAX_E820_ENTRIES /\ firmware \in Firmwares
      BY <1>1, <1>2, <1>3, <1>4, CallFacts DEF LoaderTypeOK, NextReply, Entries
    <2>2. memory_map' \in MemoryMaps
      BY <1>3, <1>4, <2>1, GatheredMaps
    <2> QED
      BY <1>2, <2>2 DEF MemInit, Asking
  <1> QED
    BY <1>5, <1>6, <1>7

-----------------------------------------------------------------------------
(***************************************************************************)
(* The loader and the kernel together.                                     *)
(***************************************************************************)

LEMMA KernelStepKeeps ==
    ASSUME LoaderInv, KernelStep
    PROVE  LoaderInv'
  <1>1. loader = "done" /\ UNCHANGED loaderVars /\ memory_map' = memory_map
    BY DEF KernelStep, MemNext, NoBootInfo, SkipEntry, AddRegion, EndScan,
           reserve_region, EndInitialize
  <1>2. UNCHANGED <<firmware, loader, ebx, attributes>>
    BY <1>1 DEF loaderVars
  <1>3. Entries(firmware)' = Entries(firmware)
    BY <1>2 DEF Entries
  <1>4. LoaderTypeOK'
    BY <1>1, <1>2, <1>3 DEF LoaderInv, LoaderTypeOK
  <1>5. MapIsFirmwareList'
    <2>1. Reported' = Reported
      BY <1>2 DEF Reported, Believable
    <2>2. \A k, r : AsReported(k, r)' <=> AsReported(k, r)
      BY <1>1, <1>2 DEF AsReported
    <2> QED
      BY <1>1, <1>2, <2>1, <2>2 DEF LoaderInv, MapIsFirmwareList
  <1> QED
    BY <1>1, <1>2, <1>4, <1>5 DEF LoaderInv

\* While the loader asks, the kernel is where it starts, with a map it can
\* be given.
LEMMA StartsFromAny ==
    ASSUME LoaderInv, loader = "asking"
    PROVE  MemInit
  <1>1. memory_map \in MemoryMaps
    <2>1. /\ Len(memory_map) <= ebx /\ ebx <= Len(firmware.replies)
          /\ Len(memory_map) \in Nat /\ ebx \in Nat /\ Len(firmware.replies) \in Nat
      BY FirmwareFacts DEF LoaderInv, LoaderTypeOK, Asking
    <2>2. Len(memory_map) <= Len(firmware.replies)
      BY <2>1
    <2> QED
      BY <2>2, GatheredMaps DEF LoaderInv, LoaderTypeOK
  <1> QED
    BY <1>1 DEF LoaderInv, Asking, MemInit

LEMMA BootInvInit == BootInit => BootInv
  <1> SUFFICES ASSUME BootInit PROVE BootInv
    OBVIOUS
  <1>1. /\ firmware \in Firmwares /\ loader = "asking" /\ ebx = 0
        /\ attributes = [k \in 1 .. MAX_E820_ENTRIES |-> 0]
        /\ memory_map = <<>> /\ Len(memory_map) = 0 /\ DOMAIN memory_map = {}
        /\ Len(firmware.replies) \in Nat /\ MAX_E820_ENTRIES \in Nat
    BY FirmwareFacts DEF BootInit
  <1>2. LoaderTypeOK
    BY <1>1 DEF LoaderTypeOK, Attributes
  <1>3. Gathered(ebx)
    <2>1. {m \in Reported : m <= ebx} = {}
      BY <1>1, FirmwareFacts DEF Reported
    <2>2. \E p : p = [k \in DOMAIN memory_map |-> 0]
      OBVIOUS
    <2>3. PICK place : place \in [DOMAIN memory_map -> Reported] /\ DOMAIN place = {}
      BY <1>1, <2>2
    <2>4. Range(place) = {}
      BY <2>3 DEF Range
    <2> QED
      BY <1>1, <2>1, <2>3, <2>4 DEF Gathered
  <1>4. LoaderInv
    BY <1>1, <1>2, <1>3 DEF LoaderInv, MapIsFirmwareList, Asking, BootInit
  <1>5. MemInv
    BY <1>1, <1>4, StartsFromAny, MemInvInit
  <1> QED
    BY <1>4, <1>5 DEF BootInv

LEMMA BootInvStep == BootInv /\ [BootNext]_bootVars => BootInv'
  <1> SUFFICES ASSUME BootInv, [BootNext]_bootVars PROVE BootInv'
    OBVIOUS
  <1>1. LoaderInv /\ MemInv
    BY DEF BootInv
  <1>2. CASE BufferFull
    <2>1. LoaderInv'
      BY <1>1, <1>2, BufferFullKeeps
    <2>2. MemInv'
      BY <1>1, <1>2, MemInvStep DEF BufferFull
    <2> QED
      BY <2>1, <2>2 DEF BootInv
  <1>3. CASE StopAsking
    <2>1. LoaderInv'
      BY <1>1, <1>3, StopAskingKeeps
    <2>2. MemInv'
      BY <1>1, <1>3, MemInvStep DEF StopAsking
    <2> QED
      BY <2>1, <2>2 DEF BootInv
  <1>4. CASE NextReply
    <2>1. LoaderInv' /\ MemInit'
      BY <1>1, <1>4, NextReplyKeeps
    <2>2. MemInit' => MemInv'
      BY MemInvInit, PTL
    <2> QED
      BY <2>1, <2>2 DEF BootInv
  <1>5. CASE KernelStep
    <2>1. LoaderInv'
      BY <1>1, <1>5, KernelStepKeeps
    <2>2. MemInv'
      BY <1>1, <1>5, MemInvStep DEF KernelStep
    <2> QED
      BY <2>1, <2>2 DEF BootInv
  <1>6. CASE UNCHANGED bootVars
    <2>1. UNCHANGED memVars /\ UNCHANGED <<firmware, loader, ebx, attributes>>
      BY <1>6 DEF bootVars, loaderVars
    <2>2. MemInv'
      BY <1>1, <2>1, MemInvStep
    <2>3. memory_map' = memory_map /\ UNCHANGED <<step, i, usable_regions, reserved_regions>>
      BY <2>1 DEF memVars
    <2>4. LoaderInv'
      BY <1>1, <2>1, <2>3 DEF LoaderInv, LoaderTypeOK, Entries, Asking, Gathered,
                MapIsFirmwareList, Reported, AsReported, Believable
    <2> QED
      BY <2>2, <2>4 DEF BootInv
  <1> QED
    BY <1>2, <1>3, <1>4, <1>5, <1>6 DEF BootNext

\* The loader's and the kernel's invariant, from the first call of int 0x15
\* until the kernel is running.
THEOREM BootInvariant == BootSpec => []BootInv
  BY BootInvInit, BootInvStep, PTL DEF BootSpec

\* For every firmware and every size of the buffer, the kernel gets the
\* entries the firmware reported, as many as there is room for, in order,
\* each with its own attributes.
THEOREM FirmwareListIsHandedOver == BootSpec => []MapIsFirmwareList
  <1>1. BootInv => MapIsFirmwareList
    BY DEF BootInv, LoaderInv
  <1> QED
    BY <1>1, BootInvariant, PTL

\* Whatever the firmware answers, the tables memory::initialize builds from
\* it have what is proved of MemSpec for an arbitrary map: usable regions of
\* whole pages of RAM, exclusive when the firmware reports no byte twice, no
\* page of RAM lost unless a table is full, and every reservation kept.
THEOREM BootBuildsTheTables ==
    BootSpec => /\ []MemTypeOK /\ []UsableIsRam /\ []UsableRegionsExclusive
                /\ []NoPageLost /\ []EveryReservationKept
  <1>1. BootInv => /\ MemTypeOK /\ UsableIsRam /\ UsableRegionsExclusive
                   /\ NoPageLost /\ EveryReservationKept
    BY DEF BootInv, MemInv
  <1> QED
    BY <1>1, BootInvariant, PTL

=============================================================================
