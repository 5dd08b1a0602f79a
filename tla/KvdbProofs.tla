---------------------------- MODULE KvdbProofs ----------------------------
(***************************************************************************)
(* The files of libkvdb for any keys, values, bounds, and any points at    *)
(* which the process may die: types, the count in the head of the journal, *)
(* the search for an entry, which ends unless a death has left a short     *)
(* entry behind (JournalInv); that offsets lead to the right bytes         *)
(* (StoreInv); and that the database implements KvStore (CleanInv).        *)
(***************************************************************************)
EXTENDS Kvdb, Numbers, TLAPS

Entries == [status : {"USED", "FREE"}, koff : Nat, voff : Nat, end : BOOLEAN]
Ops == [key : Keys, val : Values]

FileTypes ==
    /\ DOMAIN data = Offsets
    /\ \A o \in Offsets : /\ data[o].key \in Keys \cup {NoValue}
                          /\ data[o].val \in Values \cup {NoValue}
    /\ rec \in [Slots -> [status : Statuses, koff : Nat, voff : Nat]]
    /\ log \in Seq(Entries) /\ nr \in Nat

LocalTypes ==
    /\ pc \in {"down", "rec_entry", "rec_scan", "rec_free", "idle", "data", "log_find",
               "log_head", "log_entry", "log_end", "record", "log_free", "put_stuck",
               "ruined"}
    /\ put \in [koff : Nat, voff : Nat, recno : {put.recno}, entry : Nat, base : Nat]
    /\ buf \in [status : Statuses, koff : Nat, voff : Nat, end : BOOLEAN]
    /\ at \in Nat \ {0} /\ slot \in Nat
    /\ puts \in 0 .. MaxPuts /\ crashes \in 0 .. MaxCrashes
    /\ op = NoPut \/ op \in Ops
    /\ pc = "data" => op \in Ops

\* Every entry has been counted, by a put of its own, before it is written.
CountInv ==
    /\ Len(log) <= nr
    /\ nr <= puts
    /\ pc \in {"data", "log_find", "log_head"} => nr < puts
    /\ pc = "log_head" => put.entry = Len(log) + 1
    /\ pc = "log_entry" => put.entry \in 1 .. nr /\ put.entry <= Len(log) + 1
    /\ pc \in {"log_end", "record", "log_free"} => put.entry \in 1 .. Len(log)

\* Only kvdb_put in the middle of a new entry has one without an end, or a death there.
ShortInv ==
    \A i \in DOMAIN log :
        ~log[i].end => "log_short" \in marks \/ (pc = "log_end" /\ put.entry = i)

JournalInv == FileTypes /\ LocalTypes /\ CountInv /\ ShortInv /\ SearchEnds
------------------------------------------------------------------------------
(***************************************************************************)
(* Why no record and no entry ever leads to the wrong bytes.  Offsets are  *)
(* taken above all that the table refers to, so every entry that may be    *)
(* replayed must be covered by a record that lies as far out.              *)
(***************************************************************************)
Pair(r) == <<r.koff, r.voff>>
Used == {j \in Slots : rec[j].status = "USED"}
LogUse == {i \in 1 .. Len(log) : log[i].status = "USED"}

\* All pairs of offsets somebody may come to follow.
Refs ==
    {Pair(rec[j]) : j \in Used} \cup {Pair(log[i]) : i \in LogUse}
        \cup (IF pc \in {"log_find", "log_head", "log_entry"} THEN {Pair(put)} ELSE {})

\* They lead to a key and a value of it, and a key is in one place.
RefsGood ==
    /\ \A r \in Refs :
          /\ r[1] \in Nat \ {0} /\ r[2] \in Nat /\ r[1] < r[2] /\ r[2] <= 2 * puts
          /\ data[r[1]].key # NoValue /\ data[r[1]].val = NoValue
          /\ data[r[2]].val # NoValue /\ data[r[2]].key = data[r[1]].key
    /\ \A r, s \in Refs : data[r[1]].key = data[s[1]].key => r[1] = s[1]

\* The table has no gaps, and no two records for a key.
TableInv ==
    /\ \A i, j \in Slots : i < j /\ j \in Used => i \in Used
    /\ \A i, j \in Used : rec[i].koff = rec[j].koff => i = j
    /\ log = << >> => Used = {}

\* The put of entry i is done, or there is a later one of its key; or the entry is
\* short, the first that was ever written, and recover has passed over it.
Covered(i) == \E j \in Used : rec[j].koff = log[i].koff /\ rec[j].voff >= log[i].voff
Skipped(i) == Len(log) = 1 /\ ~log[1].end /\ Used = {} /\ Pair(log[i]) = <<1, 2>>

\* Only the last entry can be short.
LastInv ==
    /\ \A i \in 1 .. Len(log) : ~log[i].end => i = Len(log)
    /\ Len(log) = 1 /\ 1 \in LogUse /\ ~log[1].end => Covered(1) \/ Skipped(1)

\* recover has found the entries before `at` covered, or writes them to the table.
FoundUpTo(n) == \A i \in LogUse : i < n => Covered(i) \/ Skipped(i)
ScanInv ==
    /\ pc = "down" => buf = NoBuf
    /\ pc = "rec_entry" =>
          /\ FoundUpTo(at)
          /\ 1 < at /\ at <= Len(log) => buf.end
          /\ ToReplay(buf) => Pair(buf) \in {Pair(rec[j]) : j \in Used}
    /\ pc = "rec_scan" /\ buf.status = "USED" =>
          /\ buf.end /\ FoundUpTo(at)
          /\ \A m \in Slots : m < slot => m \in Used /\ rec[m].koff # buf.koff
          /\ \/ at \in LogUse /\ Pair(buf) = Pair(log[at])
             \/ at > Len(log) /\ Pair(buf) \in {Pair(rec[j]) : j \in Used}
    /\ pc = "rec_scan" /\ buf.status # "USED" =>
          \E j \in Used : j < slot /\ rec[j].koff = buf.koff
    /\ pc = "rec_free" => \E j \in Used : j <= slot /\ rec[j].koff = buf.koff

\* Where the put in progress goes.
PutInv ==
    /\ pc \in {"data", "log_find", "log_head", "log_entry", "log_end", "record"} =>
          /\ put.recno \in Slots
          /\ \A m \in Slots : m < put.recno => m \in Used
          /\ \A j \in Used : rec[j].voff < put.voff /\ (rec[j].koff = put.koff <=> j = put.recno)
    /\ pc \in {"data", "log_find", "log_head", "log_entry"} /\ Used = {} => Pair(put) = <<1, 2>>
    /\ pc = "data" =>
          /\ put.base \in Nat \ {0} /\ put.base < 2 * puts
          /\ \A j \in Used : rec[j].voff < put.base
          /\ \/ /\ put.koff = put.base /\ put.voff = put.base + 1
                /\ \A j \in Used : data[rec[j].koff].key # op.key
             \/ /\ put.recno \in Used /\ put.voff = put.base /\ data[put.koff].key = op.key
    /\ pc \in {"log_head", "log_entry"} /\ put.entry > Len(log) =>
          \A i \in 1 .. Len(log) : log[i].end
    /\ pc = "log_entry" => put.entry \notin LogUse
    /\ pc \in {"log_end", "record"} => put.entry \in LogUse /\ Pair(log[put.entry]) = Pair(put)
    /\ pc \in {"record", "log_free"} => log[put.entry].end

CoverInv ==
    /\ pc \in {"idle", "data", "log_find"} => \A i \in LogUse : Covered(i) \/ Skipped(i)
    /\ pc \in {"log_head", "log_entry", "log_free"} => \A i \in LogUse : Covered(i)
    /\ pc \in {"log_end", "record"} => \A i \in LogUse \ {put.entry} : Covered(i)

Sane == RefsGood /\ TableInv /\ LastInv /\ ScanInv /\ PutInv /\ CoverInv

StoreInv == pc # "ruined" /\ "free_slot" \notin marks => Sane
------------------------------------------------------------------------------
(***************************************************************************)
(* Before the first death that leaves a mark there is one put at most that *)
(* recover or kvdb_put has still to do, and it is the last one called.     *)
(***************************************************************************)
\* Where the pair of r leads is what the put in flight has written.
IsOp(r) ==
    /\ op # NoPut /\ op \in Ops
    /\ data[r.koff].key = op.key /\ data[r.voff].val = op.val

InTable(r) == Pair(r) \in {Pair(rec[j]) : j \in Used}

OpInv ==
    /\ pc \in {"idle", "log_free"} => op = NoPut
    /\ pc \in {"idle", "data", "log_find", "log_head", "log_entry"} => LogUse = {}
    /\ pc \in {"log_end", "record", "log_free"} => LogUse = {put.entry}
    /\ pc \in {"log_find", "log_head", "log_entry", "log_end", "record"} => IsOp(put)
    /\ pc \in {"down", "rec_entry", "rec_scan"} =>
          \A i \in LogUse : LogUse = {i} /\ log[i].end /\ IsOp(log[i]) /\ ~InTable(log[i])
    /\ pc = "rec_entry" => ~ToReplay(buf) /\ \A i \in LogUse : i >= at
    /\ pc = "rec_scan" => LogUse = IF buf.status = "USED" THEN {at} ELSE {}
    /\ pc = "rec_free" => LogUse \subseteq {at}

CleanInv == pc # "ruined" /\ marks = {} => OpInv
------------------------------------------------------------------------------
\* What kvdb_put takes for the offset of its value, and for the entry, is there to take.
LEMMA EndOfValues ==
    ASSUME FileTypes
    PROVE  LET ends == {rec[j].voff + 1 : j \in InUse} \cup {DataLo}
           IN  Max(ends) \in ends /\ Max(ends) \in Nat /\ \A x \in ends : Max(ends) >= x
<1> DEFINE S == {rec[j].voff + 1 : j \in InUse} \cup {DataLo}
           f == [i \in 0 .. NRecords - 1 |-> rec[i].voff + 1]
<1>1. \A j \in Slots : rec[j].voff + 1 \in Nat
    BY DEF FileTypes
<1>2. NRecords \in Nat /\ f \in [0 .. NRecords - 1 -> Nat]
    BY <1>1, KvdbAssumption DEF Slots
<1>3. PICK b \in Nat : \A i \in 0 .. NRecords - 1 : f[i] <= b
    <2> HIDE DEF f
    <2> QED BY <1>2, BoundOfMany
<1>4. S \subseteq Nat /\ S # {} /\ \A x \in S : x <= b + 1
    BY <1>1, <1>3 DEF InUse, Slots, DataLo
<1>b. b + 1 \in Nat
    OBVIOUS
<1>5. \E x \in S : \A y \in S : x >= y
    <2> HIDE DEF S
    <2> QED BY <1>4, <1>b, GreatestNumber
<1>6. Max(S) \in S /\ \A x \in S : Max(S) >= x
    <2> HIDE DEF S
    <2> QED BY <1>5 DEF Max
<1> QED BY <1>4, <1>6

LEMMA FirstUnused ==
    ASSUME FileTypes, {i \in 1 .. Len(log) : log[i].status # "USED"} # {}
    PROVE  LET i == Min({n \in 1 .. Len(log) : log[n].status # "USED"})
           IN  i \in 1 .. Len(log) /\ log[i].status # "USED"
<1> DEFINE S == {i \in 1 .. Len(log) : log[i].status # "USED"}
<1>1. S \subseteq Nat /\ S # {} /\ S \subseteq 1 .. Len(log)
    BY DEF FileTypes
<1> HIDE DEF S
<1>2. \E i \in S : \A j \in S : i <= j
    BY <1>1, LeastNumber
<1>3. Min(S) \in S
    BY <1>2 DEF Min
<1> QED BY <1>1, <1>3 DEF S
------------------------------------------------------------------------------
LEMMA InvInit == KvdbInit => JournalInv
<1> SUFFICES ASSUME KvdbInit PROVE JournalInv
    OBVIOUS
<1> USE DEF KvdbInit
<1>1. FileTypes
    <2>1. rec \in [Slots -> [status : Statuses, koff : Nat, voff : Nat]]
        BY DEF Blank, Statuses
    <2>2. log \in Seq(Entries)
        OBVIOUS
    <2>3. /\ DOMAIN data = Offsets
          /\ \A o \in Offsets : data[o].key = NoValue /\ data[o].val = NoValue
        BY DEF NoCell
    <2> QED BY <2>1, <2>2, <2>3 DEF FileTypes
<1>2. LocalTypes
    BY KvdbAssumption DEF LocalTypes, NoLocals, NoBuf, Statuses
<1>3. CountInv /\ ShortInv /\ SearchEnds
    BY DEF CountInv, ShortInv, SearchEnds
<1> QED BY <1>1, <1>2, <1>3 DEF JournalInv
------------------------------------------------------------------------------
(***************************************************************************)
(* The steps of recover                                                    *)
(***************************************************************************)
\* What recover reads is an entry, or what was in the buffer.
LEMMA ReadTypes ==
    ASSUME FileTypes, LocalTypes, NEW b \in Reads(at)
    PROVE  b \in [status : Statuses, koff : Nat, voff : Nat, end : BOOLEAN]
<1>1. CASE at > Len(log)
    BY <1>1 DEF Reads, LocalTypes
<1>2. CASE at <= Len(log)
    <2>1. log[at] \in Entries
        BY <1>2 DEF FileTypes, LocalTypes
    <2>2. PICK e \in BOOLEAN : b = [log[at] EXCEPT !.end = e]
        <3>1. buf.end \in BOOLEAN /\ at <= Len(log) /\ ~(at > Len(log))
            BY <1>2 DEF LocalTypes, FileTypes
        <3> QED BY <3>1 DEF Reads
    <2> QED BY <2>1, <2>2 DEF Entries, Statuses
<1> QED BY <1>1, <1>2 DEF FileTypes, LocalTypes

\* A step that leaves the files alone, and every local but those of recover.
LEMMA NoFileChanged ==
    ASSUME JournalInv, UNCHANGED <<data, rec, log, nr, put, puts, crashes>>,
           marks \subseteq marks', LocalTypes', pc' \in {"down", "rec_entry", "rec_scan", "idle"}, pc # "log_end"
    PROVE  JournalInv'
<1>1. FileTypes' /\ LocalTypes'
    BY DEF JournalInv, FileTypes
<1>2. CountInv'
    BY DEF JournalInv, CountInv
<1>3. ShortInv' /\ SearchEnds'
    BY DEF JournalInv, ShortInv, SearchEnds
<1> QED BY <1>1, <1>2, <1>3 DEF JournalInv

LEMMA RecoveryStep == JournalInv /\ (Recovery \/ Close \/ \E k \in Keys : Get(k)) => JournalInv'
<1> SUFFICES ASSUME JournalInv PROVE (Recovery \/ Close \/ \E k \in Keys : Get(k)) => JournalInv'
    OBVIOUS
<1>1. ASSUME Open \/ RecoverDone \/ RecoverFinds \/ RecoverPasses PROVE JournalInv'
    <2>1. LocalTypes
        BY DEF JournalInv
    <2>2. CASE Open
        BY <2>1, <2>2, NoFileChanged DEF LocalTypes, Open, files, counts
    <2>3. CASE RecoverDone
        BY <2>1, <2>3, NoFileChanged DEF LocalTypes, RecoverDone, files, locals, counts
    <2>4. CASE RecoverFinds
        BY <2>1, <2>4, NoFileChanged DEF LocalTypes, RecoverFinds, files, counts
    <2>5. CASE RecoverPasses
        BY <2>1, <2>5, NoFileChanged DEF LocalTypes, RecoverPasses, files, counts
    <2> QED BY <1>1, <2>2, <2>3, <2>4, <2>5
<1>2. ASSUME RecoverSkips \/ RecoverReads PROVE JournalInv'
    <2>1. buf' \in Reads(at)
        BY <1>2 DEF RecoverSkips, RecoverReads
    <2>2. buf' \in [status : Statuses, koff : Nat, voff : Nat, end : BOOLEAN]
        BY <2>1, ReadTypes DEF JournalInv
    <2>3. LocalTypes'
        BY <1>2, <2>2 DEF JournalInv, LocalTypes, RecoverSkips, RecoverReads, counts
    <2> QED BY <1>2, <2>3, NoFileChanged DEF RecoverSkips, RecoverReads, files, counts
<1>3. ASSUME RecoverWrites PROVE JournalInv'
    <2>1. LocalTypes'
        BY <1>3 DEF JournalInv, LocalTypes, RecoverWrites, locals, counts
    <2>2. rec' \in [Slots -> [status : Statuses, koff : Nat, voff : Nat]]
        BY <1>3 DEF JournalInv, LocalTypes, FileTypes, RecoverWrites
    <2>3. FileTypes'
        BY <1>3, <2>2 DEF JournalInv, FileTypes, RecoverWrites
    <2>4. CountInv' /\ ShortInv' /\ SearchEnds'
        BY <1>3 DEF JournalInv, CountInv, ShortInv, SearchEnds, RecoverWrites, locals, counts
    <2> QED BY <2>1, <2>3, <2>4 DEF JournalInv
<1>4. ASSUME RecoverDisables PROVE JournalInv'
    <2>1. LocalTypes'
        BY <1>4 DEF JournalInv, LocalTypes, RecoverDisables, Statuses, counts
    <2>2. log' = [log EXCEPT ![at].status = "FREE", ![at].end = TRUE]
        BY <1>4 DEF RecoverDisables
    <2>3. /\ log' \in Seq(Entries) /\ Len(log') = Len(log)
          /\ \A i \in DOMAIN log : ~log'[i].end => ~log[i].end
        <3>1. log \in Seq(Entries)
            BY DEF JournalInv, FileTypes
        <3>2. log' = [i \in DOMAIN log |->
                         IF i = at THEN [log[i] EXCEPT !.status = "FREE", !.end = TRUE]
                         ELSE log[i]]
            BY <2>2, <3>1
        <3>3. \A i \in DOMAIN log : log'[i] \in Entries /\ (~log'[i].end => ~log[i].end)
            <4> SUFFICES ASSUME NEW i \in DOMAIN log
                         PROVE  log'[i] \in Entries /\ (~log'[i].end => ~log[i].end)
                OBVIOUS
            <4>1. log[i] \in Entries
                BY <3>1
            <4> QED BY <3>2, <4>1 DEF Entries
        <3>4. DOMAIN log = 1 .. Len(log) /\ Len(log) \in Nat
            BY <3>1
        <3>5. log' \in [1 .. Len(log) -> Entries]
            BY <3>2, <3>3, <3>4
        <3> QED BY <3>3, <3>4, <3>5
    <2>4. FileTypes'
        BY <1>4, <2>3 DEF JournalInv, FileTypes, RecoverDisables
    <2>5. CountInv' /\ SearchEnds'
        BY <1>4, <2>3 DEF JournalInv, CountInv, SearchEnds, RecoverDisables, counts
    <2>6. ShortInv'
        <3>1. DOMAIN log' = DOMAIN log
            BY <2>2
        <3> QED BY <1>4, <2>3, <3>1 DEF JournalInv, ShortInv, RecoverDisables, counts
    <2> QED BY <2>1, <2>4, <2>5, <2>6 DEF JournalInv
<1>5. ASSUME RecoverRunsOn PROVE JournalInv'
    <2>1. FileTypes'
        BY <1>5 DEF JournalInv, FileTypes, RecoverRunsOn, NoCell
    <2>2. LocalTypes'
        BY <1>5 DEF JournalInv, LocalTypes, RecoverRunsOn, locals, counts
    <2>3. CountInv' /\ ShortInv' /\ SearchEnds'
        BY <1>5 DEF JournalInv, CountInv, ShortInv, SearchEnds, RecoverRunsOn, locals, counts
    <2> QED BY <2>1, <2>2, <2>3 DEF JournalInv
<1>6. ASSUME NEW k \in Keys, Get(k) PROVE JournalInv'
    <2>1. LocalTypes'
        BY <1>6 DEF JournalInv, LocalTypes, Get, locals, counts
    <2> QED BY <1>6, <2>1, NoFileChanged DEF Get, files, locals, counts
<1>7. ASSUME Close PROVE JournalInv'
    <2>1. LocalTypes'
        BY <1>7 DEF JournalInv, LocalTypes, Close, NoLocals, NoBuf, Statuses, counts
    <2>2. FileTypes' /\ CountInv' /\ ShortInv' /\ SearchEnds'
        BY <1>7 DEF JournalInv, FileTypes, CountInv, ShortInv, SearchEnds, Close, files, counts
    <2> QED BY <2>1, <2>2 DEF JournalInv
<1> QED BY <1>1, <1>2, <1>3, <1>4, <1>5, <1>6, <1>7 DEF Recovery
------------------------------------------------------------------------------
(***************************************************************************)
(* The steps of kvdb_put, and a death                                      *)
(***************************************************************************)
LEMMA PutCallStep ==
    ASSUME JournalInv, NEW k \in Keys, NEW v \in Values, PutCall(k, v)
    PROVE  JournalInv'
<1> DEFINE base == Max({rec[j].voff + 1 : j \in InUse} \cup {DataLo})
<1>1. base \in Nat
    BY EndOfValues DEF JournalInv
<1>2. \E j, known :
         /\ known => j \in InUse
         /\ put' = [koff |-> IF known THEN rec[j].koff ELSE base,
                    voff |-> IF known THEN base ELSE base + 1,
                    recno |-> j, entry |-> 0, base |-> base]
    <2> DEFINE old == WithKey(k) # {}
               no == IF old THEN Min(WithKey(k)) ELSE Min({i \in Slots : rec[i].status # "USED"})
    <2>1. old => no \in InUse
        <3> SUFFICES ASSUME old PROVE Min(WithKey(k)) \in WithKey(k)
            BY DEF WithKey
        <3>1. WithKey(k) \subseteq Nat
            BY KvdbAssumption DEF WithKey, InUse, Slots
        <3>2. \E i \in WithKey(k) : \A m \in WithKey(k) : i <= m
            BY <3>1, LeastNumber
        <3> QED BY <3>2 DEF Min
    <2>2. put' = [koff |-> IF old THEN rec[no].koff ELSE base,
                  voff |-> IF old THEN base ELSE base + 1,
                  recno |-> no, entry |-> 0, base |-> base]
        BY DEF PutCall
    <2> HIDE DEF old, no, base
    <2> QED BY <2>1, <2>2
<1> HIDE DEF base
<1>3. put' \in [koff : Nat, voff : Nat, recno : {put'.recno}, entry : Nat, base : Nat]
    <2>1. \A j \in InUse : rec[j].koff \in Nat
        BY DEF InUse, JournalInv, FileTypes
    <2> QED BY <1>1, <1>2, <2>1
<1>4. /\ pc' = "data" /\ op' = [key |-> k, val |-> v] /\ puts' = puts + 1 /\ puts < MaxPuts
      /\ UNCHANGED <<data, rec, log, nr, at, slot, buf, crashes, marks>> /\ pc = "idle"
    BY DEF PutCall, files
<1>5. LocalTypes' /\ FileTypes'
    <2>0. FileTypes /\ LocalTypes
        BY DEF JournalInv
    <2>1. FileTypes'
        BY <1>4, <2>0 DEF FileTypes
    <2>2. op' \in Ops
        BY <1>4 DEF Ops
    <2>3. puts' \in 0 .. MaxPuts
        BY <1>4, <2>0, KvdbAssumption DEF LocalTypes
    <2>4. /\ at' = at /\ slot' = slot /\ buf' = buf /\ crashes' = crashes /\ pc' = "data"
        BY <1>4
    <2> QED BY <1>3, <2>0, <2>1, <2>2, <2>3, <2>4 DEF LocalTypes
<1>6. CountInv' /\ ShortInv' /\ SearchEnds'
    BY <1>4, KvdbAssumption
       DEF JournalInv, LocalTypes, FileTypes, CountInv, ShortInv, SearchEnds
<1> QED BY <1>5, <1>6 DEF JournalInv

\* Changing fields of one entry keeps the journal a journal.
LEMMA EntryChanged ==
    ASSUME NEW l \in Seq(Entries), NEW i \in 1 .. Len(l), NEW e \in Entries
    PROVE  /\ [l EXCEPT ![i] = e] \in Seq(Entries) /\ Len([l EXCEPT ![i] = e]) = Len(l)
           /\ \A j \in 1 .. Len(l) : [l EXCEPT ![i] = e][j] = IF j = i THEN e ELSE l[j]
OBVIOUS

LEMMA PutStepStep == JournalInv /\ PutStep => JournalInv'
<1> SUFFICES ASSUME JournalInv, PutStep PROVE JournalInv'
    OBVIOUS
<1>0. FileTypes /\ LocalTypes /\ CountInv /\ ShortInv /\ SearchEnds
    BY DEF JournalInv
<1>1. CASE PutData
    <2>1. op \in Ops
        BY <1>0, <1>1 DEF PutData, LocalTypes
    <2>2. FileTypes'
        <3> DEFINE value == [key |-> op.key, val |-> op.val]
                   keyCell == [key |-> op.key, val |-> NoValue]
                   written == [data EXCEPT ![put.voff] = value]
        <3>1. /\ value.key \in Keys /\ value.val \in Values
              /\ keyCell.key \in Keys /\ keyCell.val = NoValue
            BY <2>1 DEF Ops
        <3>2. /\ DOMAIN written = Offsets
              /\ \A o \in Offsets : written[o] = data[o] \/ written[o] = value
            BY <1>0 DEF FileTypes
        <3>3. data' = [written EXCEPT ![put.koff] = keyCell] \/ data' = written
            BY <1>1 DEF PutData
        <3>4. /\ DOMAIN data' = Offsets
              /\ \A o \in Offsets : data'[o] \in {data[o], value, keyCell}
            <4> HIDE DEF written, value, keyCell
            <4> QED BY <3>2, <3>3
        <3>5. \A o \in Offsets : /\ data'[o].key \in Keys \cup {NoValue}
                                 /\ data'[o].val \in Values \cup {NoValue}
            <4> HIDE DEF written, value, keyCell
            <4> QED BY <1>0, <3>1, <3>4 DEF FileTypes
        <3> QED BY <1>0, <1>1, <3>4, <3>5 DEF FileTypes, PutData
    <2>3. LocalTypes'
        BY <1>0, <1>1 DEF LocalTypes, PutData, locals, counts
    <2>4. CountInv' /\ ShortInv' /\ SearchEnds'
        BY <1>0, <1>1 DEF CountInv, ShortInv, SearchEnds, PutData, locals, counts
    <2> QED BY <2>2, <2>3, <2>4 DEF JournalInv
<1>2. CASE PutFindsEntry
    <2> DEFINE unused == {i \in 1 .. Len(log) : log[i].status # "USED"}
    <2>1. /\ pc = "log_find" /\ UNCHANGED <<data, rec, log, nr, at, slot, buf, op, puts, crashes, marks>>
        BY <1>2 DEF PutFindsEntry, files, counts
    <2>2. \/ /\ unused # {} /\ put' = [put EXCEPT !.entry = Min(unused)] /\ pc' = "log_entry"
          \/ log # << >> /\ ~Last(log).end /\ pc' = "put_stuck" /\ put' = put
          \/ put' = [put EXCEPT !.entry = Len(log) + 1] /\ pc' = "log_head"
        BY <1>2 DEF PutFindsEntry
    <2>3. unused # {} => Min(unused) \in 1 .. Len(log)
        BY <1>0, FirstUnused
    <2> HIDE DEF unused
    <2>4. FileTypes'
        BY <1>0, <2>1 DEF FileTypes
    <2>5. Len(log) \in Nat
        BY <1>0 DEF FileTypes
    <2>6. LocalTypes'
        BY <1>0, <2>1, <2>2, <2>3, <2>5 DEF LocalTypes
    <2>7. CountInv'
        BY <1>0, <2>1, <2>2, <2>3, <2>5 DEF CountInv, LocalTypes, FileTypes
    <2>8. ShortInv'
        BY <1>0, <2>1 DEF ShortInv
    <2>9. SearchEnds'
        <3> SUFFICES ASSUME log # << >>, ~Last(log).end PROVE "log_short" \in marks
            BY <2>1, <2>2 DEF SearchEnds
        <3>1. Len(log) \in DOMAIN log /\ Last(log) = log[Len(log)]
            BY <1>0 DEF FileTypes, Last
        <3> QED BY <1>0, <2>1, <3>1 DEF ShortInv
    <2> QED BY <2>4, <2>6, <2>7, <2>8, <2>9 DEF JournalInv
<1>3. CASE PutHead
    <2>1. /\ pc = "log_head" /\ pc' = "log_entry" /\ nr' = nr + 1
          /\ UNCHANGED <<data, rec, log, put, at, slot, buf, op, puts, crashes, marks>>
        BY <1>3 DEF PutHead, locals, counts
    <2>2. FileTypes' /\ LocalTypes' /\ ShortInv' /\ SearchEnds'
        BY <1>0, <2>1 DEF FileTypes, LocalTypes, ShortInv, SearchEnds
    <2>3. CountInv'
        BY <1>0, <2>1 DEF CountInv, FileTypes, LocalTypes
    <2> QED BY <2>2, <2>3 DEF JournalInv
<1>4. CASE PutEntry
    <2> DEFINE new == [status |-> "USED", koff |-> put.koff, voff |-> put.voff,
                       end |-> put.entry <= Len(log)]
    <2>1. /\ pc = "log_entry" /\ pc' = "log_end"
          /\ log' = IF put.entry <= Len(log) THEN [log EXCEPT ![put.entry] = new]
                    ELSE Append(log, new)
          /\ UNCHANGED <<data, rec, nr, put, at, slot, buf, op, puts, crashes, marks>>
        BY <1>4 DEF PutEntry, locals, counts
    <2>2. new \in Entries /\ new.end = (put.entry <= Len(log))
        BY <1>0 DEF LocalTypes, Entries
    <2>3. put.entry \in 1 .. Len(log) + 1 /\ put.entry <= nr /\ Len(log) \in Nat /\ nr \in Nat
        BY <1>0, <2>1 DEF CountInv, FileTypes, LocalTypes
    <2>4. log \in Seq(Entries)
        BY <1>0 DEF FileTypes
    <2> HIDE DEF new
    <2>5. /\ log' \in Seq(Entries) /\ Len(log') <= nr /\ put.entry \in 1 .. Len(log')
          /\ \A i \in DOMAIN log' : ~log'[i].end => i = put.entry \/ (i \in DOMAIN log /\ ~log[i].end)
        <3>1. CASE put.entry <= Len(log)
            <4>1. log' = [log EXCEPT ![put.entry] = new] /\ put.entry \in 1 .. Len(log)
                BY <2>1, <2>3, <3>1
            <4>2. /\ log' \in Seq(Entries) /\ Len(log') = Len(log)
                  /\ \A j \in 1 .. Len(log) : log'[j] = IF j = put.entry THEN new ELSE log[j]
                BY <2>2, <2>4, <4>1, EntryChanged
            <4> QED BY <1>0, <2>4, <4>1, <4>2 DEF CountInv
        <3>2. CASE put.entry = Len(log) + 1
            <4>1. log' = Append(log, new)
                BY <2>1, <2>3, <3>2
            <4> QED BY <2>2, <2>3, <2>4, <3>2, <4>1
        <3> QED BY <2>3, <3>1, <3>2
    <2>6. FileTypes' /\ LocalTypes' /\ SearchEnds'
        BY <1>0, <2>1, <2>5 DEF FileTypes, LocalTypes, SearchEnds
    <2>7. CountInv'
        BY <1>0, <2>1, <2>5 DEF CountInv
    <2>8. ShortInv'
        BY <1>0, <2>1, <2>5 DEF ShortInv
    <2> QED BY <2>6, <2>7, <2>8 DEF JournalInv
<1>5. CASE PutEnd
    <2> DEFINE e == [log[put.entry] EXCEPT !.end = TRUE]
    <2>1. /\ pc = "log_end" /\ pc' = "record" /\ log' = [log EXCEPT ![put.entry] = e]
          /\ UNCHANGED <<data, rec, nr, put, at, slot, buf, op, puts, crashes, marks>>
        BY <1>5 DEF PutEnd, locals, counts
    <2>2. log \in Seq(Entries) /\ put.entry \in 1 .. Len(log)
        BY <1>0, <2>1 DEF FileTypes, CountInv
    <2>3. e \in Entries /\ e.end
        <3>1. log[put.entry] \in Entries
            BY <2>2
        <3> QED BY <3>1 DEF Entries
    <2> HIDE DEF e
    <2>4. /\ log' \in Seq(Entries) /\ Len(log') = Len(log)
          /\ \A j \in 1 .. Len(log) : log'[j] = IF j = put.entry THEN e ELSE log[j]
        BY <2>1, <2>2, <2>3, EntryChanged
    <2>5. FileTypes' /\ LocalTypes' /\ CountInv' /\ SearchEnds'
        BY <1>0, <2>1, <2>4 DEF FileTypes, LocalTypes, CountInv, SearchEnds
    <2>6. ShortInv'
        BY <1>0, <2>1, <2>2, <2>3, <2>4 DEF ShortInv
    <2> QED BY <2>5, <2>6 DEF JournalInv
<1>6. CASE PutRecord
    <2>1. /\ pc = "record" /\ pc' = "log_free" /\ op' = NoPut
          /\ rec' = [rec EXCEPT ![put.recno] = [status |-> "USED", koff |-> put.koff,
                                                voff |-> put.voff]]
          /\ UNCHANGED <<data, log, nr, put, at, slot, buf, puts, crashes, marks>>
        BY <1>6 DEF PutRecord, locals, counts
    <2>2. rec' \in [Slots -> [status : Statuses, koff : Nat, voff : Nat]]
        BY <1>0, <2>1 DEF FileTypes, LocalTypes, Statuses
    <2>3. FileTypes' /\ LocalTypes'
        BY <1>0, <2>1, <2>2 DEF FileTypes, LocalTypes
    <2>4. CountInv' /\ ShortInv' /\ SearchEnds'
        BY <1>0, <2>1 DEF CountInv, ShortInv, SearchEnds
    <2> QED BY <2>3, <2>4 DEF JournalInv
<1>7. CASE PutDisables
    <2> DEFINE e == [log[put.entry] EXCEPT !.status = "FREE"]
    <2>1. /\ pc = "log_free" /\ pc' = "idle" /\ log' = [log EXCEPT ![put.entry] = e]
          /\ put' = NoLocals
          /\ UNCHANGED <<data, rec, nr, at, slot, buf, op, puts, crashes, marks>>
        BY <1>7 DEF PutDisables, counts
    <2>2. log \in Seq(Entries) /\ put.entry \in 1 .. Len(log)
        BY <1>0, <2>1 DEF FileTypes, CountInv
    <2>3. e \in Entries /\ e.end = log[put.entry].end
        <3>1. log[put.entry] \in Entries
            BY <2>2
        <3> QED BY <3>1 DEF Entries
    <2> HIDE DEF e
    <2>4. /\ log' \in Seq(Entries) /\ Len(log') = Len(log)
          /\ \A j \in 1 .. Len(log) : log'[j] = IF j = put.entry THEN e ELSE log[j]
        BY <2>1, <2>2, <2>3, EntryChanged
    <2>5. FileTypes' /\ LocalTypes' /\ CountInv' /\ SearchEnds'
        BY <1>0, <2>1, <2>4 DEF FileTypes, LocalTypes, CountInv, SearchEnds, NoLocals
    <2>6. ShortInv'
        BY <1>0, <2>1, <2>2, <2>3, <2>4 DEF ShortInv
    <2> QED BY <2>5, <2>6 DEF JournalInv
<1> QED BY <1>1, <1>2, <1>3, <1>4, <1>5, <1>6, <1>7 DEF PutStep

\* A death before the end of a new entry is written leaves its mark.
LEMMA CrashStep == JournalInv /\ Crash => JournalInv'
<1> SUFFICES ASSUME JournalInv, Crash PROVE JournalInv'
    OBVIOUS
<1>0. FileTypes /\ LocalTypes /\ CountInv /\ ShortInv /\ SearchEnds
    BY DEF JournalInv
<1>1. /\ pc' = "down" /\ crashes < MaxCrashes /\ crashes' = crashes + 1
      /\ marks' = marks \cup ({Here} \cap Marking)
      /\ put' = NoLocals /\ at' = 1 /\ slot' = 0 /\ buf' = NoBuf
      /\ UNCHANGED <<data, rec, log, nr, op, puts>>
    BY DEF Crash, files
<1>2. FileTypes' /\ LocalTypes'
    <2>1. FileTypes'
        BY <1>0, <1>1 DEF FileTypes
    <2>2. put' \in [koff : Nat, voff : Nat, recno : {put'.recno}, entry : Nat, base : Nat]
        BY <1>1 DEF NoLocals
    <2>3. buf' \in [status : Statuses, koff : Nat, voff : Nat, end : BOOLEAN]
        BY <1>1 DEF NoBuf, Statuses
    <2>4. crashes' \in 0 .. MaxCrashes
        BY <1>0, <1>1, KvdbAssumption DEF LocalTypes
    <2>5. /\ at' = 1 /\ slot' = 0 /\ pc' = "down" /\ op' = op /\ puts' = puts
        BY <1>1
    <2> QED BY <1>0, <2>1, <2>2, <2>3, <2>4, <2>5 DEF LocalTypes
<1>3. CountInv' /\ SearchEnds'
    BY <1>0, <1>1 DEF CountInv, SearchEnds
<1>4. ShortInv'
    <2> SUFFICES ASSUME NEW i \in DOMAIN log, ~log[i].end PROVE "log_short" \in marks'
        BY <1>1 DEF ShortInv
    <2>1. CASE "log_short" \in marks
        BY <1>1, <2>1
    <2>2. CASE pc = "log_end" /\ put.entry = i
        <3>1. Here = "log_short"
            BY <2>2 DEF Here
        <3> QED BY <1>1, <3>1 DEF Marking
    <2> QED BY <1>0, <2>1, <2>2 DEF ShortInv
<1> QED BY <1>2, <1>3, <1>4 DEF JournalInv

LEMMA InvStep == JournalInv /\ [KvdbNext]_kvVars => JournalInv'
<1> SUFFICES ASSUME JournalInv, [KvdbNext]_kvVars PROVE JournalInv'
    OBVIOUS
<1>1. CASE UNCHANGED kvVars
    BY <1>1 DEF kvVars, files, locals, counts, JournalInv, FileTypes, LocalTypes, CountInv,
                ShortInv, SearchEnds
<1>2. CASE KvdbNext
    BY <1>2, RecoveryStep, PutStepStep, PutCallStep, CrashStep DEF KvdbNext
<1> QED BY <1>1, <1>2
------------------------------------------------------------------------------
\* The parts of the invariant hold together, wherever the process dies and how often.
THEOREM JournalInvariant == KvdbSpec => []JournalInv
BY InvInit, InvStep, PTL DEF KvdbSpec

\* Files and locals have their types in every state.
THEOREM KvdbTypes == KvdbSpec => []KvdbTypeOK
<1>1. JournalInv => KvdbTypeOK
    <2> SUFFICES ASSUME JournalInv PROVE KvdbTypeOK
        OBVIOUS
    <2>0. FileTypes /\ LocalTypes /\ CountInv
        BY DEF JournalInv
    <2>1. \A i \in DOMAIN log : log[i].status \in {"USED", "FREE"} /\ log[i].end \in BOOLEAN
        <3>1. \A i \in DOMAIN log : log[i] \in Entries
            BY <2>0 DEF FileTypes
        <3> QED BY <3>1 DEF Entries
    <2>2. nr \in 0 .. MaxPuts
        BY <2>0, KvdbAssumption DEF FileTypes, LocalTypes, CountInv
    <2> QED BY <2>0, <2>1, <2>2 DEF FileTypes, LocalTypes, KvdbTypeOK, Ops
<1> QED BY JournalInvariant, <1>1, PTL

\* recover reads as many entries as there are, or more, whichever writes were the last.
THEOREM CountedTheorem == KvdbSpec => []JournalCounted
<1>1. JournalInv => JournalCounted
    BY DEF JournalInv, CountInv, JournalCounted
<1> QED BY JournalInvariant, <1>1, PTL

\* Only a death between the two writes of a new entry makes kvdb_put search for ever.
THEOREM SearchTheorem == KvdbSpec => []SearchEnds
<1>1. JournalInv => SearchEnds
    BY DEF JournalInv
<1> QED BY JournalInvariant, <1>1, PTL
------------------------------------------------------------------------------
(***************************************************************************)
(* The pairs of offsets: the steps of recover and those that write nothing *)
(***************************************************************************)
Following == {"log_find", "log_head", "log_entry"}

LEMMA TableUsed == TableInv => InUse = Used
BY KvdbAssumption DEF TableInv, InUse, Used, Slots

LEMMA SameFiles ==
    ASSUME UNCHANGED <<rec, log>>
    PROVE  /\ Used' = Used /\ LogUse' = LogUse
           /\ \A i : (Covered(i)' <=> Covered(i)) /\ (Skipped(i)' <=> Skipped(i))
BY DEF Used, LogUse, Covered, Skipped, Pair

\* No new pair and no byte changed: all pairs are as good as before.
LEMMA RefsKept ==
    ASSUME RefsGood, Refs' \subseteq Refs, data' = data, puts \in Nat, puts' \in Nat,
           puts <= puts'
    PROVE  RefsGood'
<1>1. \A r \in Refs' : r[2] \in Nat => (r[2] <= 2 * puts => r[2] <= 2 * puts')
    OBVIOUS
<1> QED BY <1>1 DEF RefsGood

LEMMA NothingWritten ==
    ASSUME Sane, JournalInv, UNCHANGED <<data, rec, log>>, puts' \in Nat, puts <= puts',
           pc' \in Following => pc \in Following /\ Pair(put)' = Pair(put)
    PROVE  RefsGood' /\ TableInv' /\ LastInv'
<1>1. Used' = Used /\ LogUse' = LogUse
      /\ \A i : (Covered(i)' <=> Covered(i)) /\ (Skipped(i)' <=> Skipped(i))
    BY SameFiles
<1>2. Refs' \subseteq Refs
    BY <1>1 DEF Refs, Following, Pair
<1>3. puts \in Nat
    BY KvdbAssumption DEF JournalInv, LocalTypes
<1>4. RefsGood'
    BY <1>2, <1>3, RefsKept DEF Sane
<1>5. TableInv' /\ LastInv'
    BY <1>1 DEF Sane, TableInv, LastInv
<1> QED BY <1>4, <1>5

\* recover on its way through journal and table: what it has passed over is covered.
LEMMA ScanStep ==
    ASSUME JournalInv, Sane, "free_slot" \notin marks',
           Open \/ RecoverDone \/ RecoverSkips \/ RecoverReads \/ RecoverFinds \/ RecoverPasses
    PROVE  Sane'
<1>0. FileTypes /\ LocalTypes /\ CountInv
    BY DEF JournalInv
<1>s. RefsGood /\ TableInv /\ LastInv /\ ScanInv /\ PutInv /\ CoverInv
    BY DEF Sane
<1>1. UNCHANGED <<data, rec, log, nr, put, puts>> /\ pc' \in {"rec_entry", "rec_scan", "idle"}
    BY DEF Open, RecoverDone, RecoverSkips, RecoverReads, RecoverFinds, RecoverPasses, files,
           locals, counts
<1>2. RefsGood' /\ TableInv' /\ LastInv'
    <2>1. puts' \in Nat /\ puts <= puts'
        BY <1>0, <1>1, KvdbAssumption DEF LocalTypes
    <2> QED BY <1>1, <2>1, NothingWritten DEF Following
<1>3. PutInv'
    BY <1>1 DEF PutInv
<1>4. Used' = Used /\ LogUse' = LogUse
      /\ \A i : (Covered(i)' <=> Covered(i)) /\ (Skipped(i)' <=> Skipped(i))
    BY <1>1, SameFiles
<1>5. Len(log) \in Nat /\ at \in Nat \ {0} /\ LogUse \subseteq 1 .. Len(log)
      /\ \A i \in 1 .. Len(log) : log[i] \in Entries
    BY <1>0 DEF FileTypes, LocalTypes, LogUse
<1>6. \A i \in LogUse : i \in Nat /\ i >= 1 /\ i <= Len(log) /\ log[i].status = "USED"
    BY <1>5 DEF LogUse
<1>7. CASE Open
    <2>1. pc = "down" /\ pc' = "rec_entry" /\ at' = 1 /\ buf' = buf
        BY <1>7 DEF Open
    <2>2. buf' = NoBuf /\ ~ToReplay(buf)'
        BY <1>s, <2>1 DEF ScanInv, NoBuf, ToReplay
    <2>3. FoundUpTo(at)'
        BY <1>4, <1>6, <2>1 DEF FoundUpTo
    <2>4. ScanInv'
        BY <2>1, <2>2, <2>3 DEF ScanInv
    <2> QED BY <1>2, <1>3, <2>1, <2>4 DEF Sane, CoverInv
<1>8. CASE RecoverDone
    <2>1. pc = "rec_entry" /\ pc' = "idle" /\ at > nr /\ nr \in Nat
        BY <1>0, <1>8 DEF RecoverDone, FileTypes
    <2>2. \A i \in LogUse : i < at
        BY <1>0, <1>5, <1>6, <2>1 DEF CountInv
    <2>3. \A i \in LogUse : Covered(i) \/ Skipped(i)
        BY <1>s, <2>1, <2>2 DEF ScanInv, FoundUpTo
    <2>4. CoverInv' /\ ScanInv'
        BY <1>4, <2>1, <2>3 DEF CoverInv, ScanInv
    <2> QED BY <1>2, <1>3, <2>4 DEF Sane
<1>9. CASE RecoverSkips
    <2>1. /\ pc = "rec_entry" /\ pc' = "rec_entry" /\ buf' \in Reads(at) /\ ~ToReplay(buf')
          /\ at' = at + 1
        BY <1>9 DEF RecoverSkips
    <2>2. at \in LogUse => Len(log) = at /\ at = 1 /\ ~log[1].end
        <3> SUFFICES ASSUME at \in LogUse PROVE Len(log) = at /\ at = 1 /\ ~log[1].end
            OBVIOUS
        <3>1. at \in 1 .. Len(log) /\ log[at].status = "USED" /\ ~(at > Len(log))
            BY <1>5, <1>6
        <3>2. PICK e \in IF log[at].end THEN {TRUE} ELSE IF at = 1 THEN BOOLEAN ELSE {buf.end} :
                    buf' = [log[at] EXCEPT !.end = e]
            BY <2>1, <3>1 DEF Reads
        <3>3. buf'.status = "USED" /\ buf'.end = e
            BY <1>5, <3>1, <3>2 DEF Entries
        <3>4. ~e
            BY <2>1, <3>3 DEF ToReplay
        <3>5. ~log[at].end /\ (at # 1 => ~buf.end)
            BY <3>2, <3>4
        <3>6. at = Len(log)
            BY <1>s, <3>1, <3>5 DEF LastInv
        <3>7. at = 1
            BY <1>s, <1>5, <2>1, <3>5, <3>6 DEF ScanInv
        <3> QED BY <3>5, <3>6, <3>7
    <2>3. at \in LogUse => Covered(at) \/ Skipped(at)
        BY <1>s, <2>2 DEF LastInv
    <2>4. FoundUpTo(at)'
        <3> SUFFICES ASSUME NEW i \in LogUse, i < at + 1 PROVE Covered(i) \/ Skipped(i)
            BY <1>4, <2>1 DEF FoundUpTo
        <3>1. i = at \/ i < at
            BY <1>5, <1>6
        <3> QED BY <1>s, <2>1, <2>3, <3>1 DEF ScanInv, FoundUpTo
    <2>5. at' <= Len(log) => buf'.end
        <3> SUFFICES ASSUME at + 1 <= Len(log) PROVE buf'.end
            BY <2>1
        <3>1. at \in 1 .. Len(log) /\ at # Len(log) /\ ~(at > Len(log))
            BY <1>5
        <3>2. log[at].end
            BY <1>s, <3>1 DEF LastInv
        <3>3. buf' = [log[at] EXCEPT !.end = TRUE]
            BY <2>1, <3>1, <3>2 DEF Reads
        <3> QED BY <1>5, <3>1, <3>3 DEF Entries
    <2>6. ScanInv'
        BY <1>1, <2>1, <2>4, <2>5 DEF ScanInv, ToReplay
    <2> QED BY <1>2, <1>3, <2>1, <2>6 DEF Sane, CoverInv
<1>10. CASE RecoverReads
    <2>1. /\ pc = "rec_entry" /\ pc' = "rec_scan" /\ buf' \in Reads(at) /\ ToReplay(buf')
          /\ slot' = 0 /\ at' = at
        BY <1>10 DEF RecoverReads
    <2>2. buf'.status = "USED" /\ buf'.end
        BY <2>1 DEF ToReplay
    <2>3. FoundUpTo(at)'
        BY <1>s, <1>4, <2>1 DEF ScanInv, FoundUpTo
    <2>4. \/ at \in LogUse /\ Pair(buf)' = Pair(log[at])
          \/ at > Len(log) /\ Pair(buf)' \in {Pair(rec[j]) : j \in Used}
        <3>1. CASE at > Len(log)
            <4>1. buf' = buf
                BY <2>1, <3>1 DEF Reads
            <4> QED BY <1>s, <2>1, <3>1, <4>1 DEF ScanInv, ToReplay
        <3>2. CASE at <= Len(log)
            <4>1. at \in 1 .. Len(log) /\ ~(at > Len(log)) /\ log[at] \in Entries
                BY <1>5, <3>2
            <4>2. \E e : buf' = [log[at] EXCEPT !.end = e]
                BY <2>1, <4>1 DEF Reads
            <4>3. buf'.status = log[at].status /\ Pair(buf)' = Pair(log[at])
                BY <4>1, <4>2 DEF Entries, Pair
            <4> QED BY <2>2, <4>1, <4>3 DEF LogUse
        <3> QED BY <1>5, <3>1, <3>2
    <2>5. \A m \in Slots : ~(m < 0)
        BY DEF Slots
    <2>6. ScanInv'
        <3>1. /\ at' \in LogUse' <=> at \in LogUse
              /\ Pair(log[at])' = Pair(log[at])
              /\ {Pair(rec[j]) : j \in Used}' = {Pair(rec[j]) : j \in Used}
              /\ Len(log)' = Len(log)
            BY <1>1, <1>4, <2>1 DEF Pair
        <3> QED BY <2>1, <2>2, <2>3, <2>4, <2>5, <3>1 DEF ScanInv
    <2> QED BY <1>2, <1>3, <2>1, <2>6 DEF Sane, CoverInv
<1>11. CASE RecoverFinds
    <2>1. /\ pc = "rec_scan" /\ pc' = "rec_entry" /\ at' = at + 1 /\ buf' = buf /\ slot \in Slots
          /\ rec[slot].koff = buf.koff /\ rec[slot].voff = buf.voff
          /\ rec[slot].status = "USED"
        BY <1>11 DEF RecoverFinds
    <2>2. slot \in Used /\ Pair(rec[slot]) = Pair(buf)
        BY <2>1 DEF Used, Pair
    <2>3. buf.status = "USED"
        <3> SUFFICES ASSUME buf.status # "USED" PROVE FALSE
            OBVIOUS
        <3>1. PICK j \in Used : j < slot /\ rec[j].koff = buf.koff
            BY <1>s, <2>1 DEF ScanInv
        <3>2. j = slot
            BY <1>s, <2>1, <2>2, <3>1 DEF TableInv
        <3> QED BY <2>1, <3>1, <3>2 DEF Slots
    <2>4. FoundUpTo(at) /\ buf.end /\ (at \in LogUse => Pair(buf) = Pair(log[at]))
        BY <1>s, <1>5, <1>6, <2>1, <2>3 DEF ScanInv
    <2>5. at \in LogUse => Covered(at)
        <3> SUFFICES ASSUME at \in LogUse PROVE Covered(at)
            OBVIOUS
        <3>1. rec[slot].koff = log[at].koff /\ rec[slot].voff = log[at].voff /\ log[at].voff \in Nat
            BY <1>5, <1>6, <2>2, <2>4 DEF Pair, Entries
        <3> QED BY <2>2, <3>1 DEF Covered
    <2>6. FoundUpTo(at)'
        <3> SUFFICES ASSUME NEW i \in LogUse, i < at + 1 PROVE Covered(i) \/ Skipped(i)
            BY <1>4, <2>1 DEF FoundUpTo
        <3>1. i = at \/ i < at
            BY <1>5, <1>6
        <3> QED BY <2>4, <2>5, <3>1 DEF FoundUpTo
    <2>7. (Pair(buf) \in {Pair(rec[j]) : j \in Used})'
        BY <1>1, <1>4, <2>1, <2>2 DEF Pair
    <2>8. ScanInv'
        BY <2>1, <2>4, <2>6, <2>7 DEF ScanInv
    <2> QED BY <1>2, <1>3, <2>1, <2>8 DEF Sane, CoverInv
<1>12. CASE RecoverPasses
    <2>1. /\ pc = "rec_scan" /\ pc' = "rec_scan" /\ slot \in Slots /\ slot' = slot + 1
          /\ at' = at /\ buf' = buf /\ ~Takes(slot)
        BY <1>12 DEF RecoverPasses
    <2>2. slot \in Used /\ rec[slot].koff # buf.koff
        BY <2>1 DEF Takes, Used
    <2>3. /\ {Pair(rec[j]) : j \in Used}' = {Pair(rec[j]) : j \in Used}
          /\ Pair(log[at])' = Pair(log[at]) /\ Pair(buf)' = Pair(buf)
        BY <1>1, <1>4, <2>1 DEF Pair
    <2>4. \A m \in Slots : m < slot + 1 => m < slot \/ m = slot
        BY <2>1 DEF Slots
    <2>5. CASE buf.status = "USED"
        <3>1. FoundUpTo(at)'
            BY <1>s, <1>4, <2>1, <2>5 DEF ScanInv, FoundUpTo
        <3>2. \A m \in Slots : m < slot' => m \in Used' /\ rec'[m].koff # buf'.koff
            BY <1>s, <1>1, <1>4, <2>1, <2>2, <2>4, <2>5 DEF ScanInv
        <3>3. ScanInv'
            BY <1>s, <1>1, <1>4, <2>1, <2>3, <2>5, <3>1, <3>2 DEF ScanInv
        <3> QED BY <1>2, <1>3, <2>1, <3>3 DEF Sane, CoverInv
    <2>6. CASE buf.status # "USED"
        <3>1. PICK j \in Used : j < slot /\ rec[j].koff = buf.koff
            BY <1>s, <2>1, <2>6 DEF ScanInv
        <3>2. j < slot + 1
            BY <2>1, <3>1 DEF Slots, Used
        <3>3. ScanInv'
            BY <1>1, <1>4, <2>1, <2>6, <3>1, <3>2 DEF ScanInv
        <3> QED BY <1>2, <1>3, <2>1, <3>3 DEF Sane, CoverInv
    <2> QED BY <2>5, <2>6
<1> QED BY <1>7, <1>8, <1>9, <1>10, <1>11, <1>12

\* A replay writes the pair of the entry over the record of its key, or behind all
\* records; what the loop writes after that are records not in use.
LEMMA WritesStep == ASSUME JournalInv, Sane, RecoverWrites PROVE Sane'
<1>0. FileTypes /\ LocalTypes /\ CountInv
    BY DEF JournalInv
<1>s. RefsGood /\ TableInv /\ LastInv /\ ScanInv /\ PutInv /\ CoverInv
    BY DEF Sane
<1>1. /\ pc = "rec_scan" /\ pc' = "rec_free" /\ slot \in Slots
      /\ ~(rec[slot].koff = buf.koff /\ rec[slot].voff = buf.voff)
      /\ rec' = [rec EXCEPT ![slot] = [status |-> buf.status, koff |-> buf.koff,
                                       voff |-> buf.voff]]
      /\ UNCHANGED <<data, log, put, at, slot, buf, puts>>
      /\ slot \notin Used \/ rec[slot].koff = buf.koff
    BY DEF RecoverWrites, Takes, Used, locals, counts
<1>2. /\ rec'[slot] = [status |-> buf.status, koff |-> buf.koff, voff |-> buf.voff]
      /\ \A j \in Slots : j # slot => rec'[j] = rec[j]
    BY <1>0, <1>1 DEF FileTypes
<1>3. PutInv' /\ CoverInv'
    BY <1>1 DEF PutInv, CoverInv
<1>4. LogUse' = LogUse
    BY <1>1 DEF LogUse
<1>5. Slots \subseteq Int /\ Used \subseteq Slots
    BY DEF Slots, Used
<1>n. puts \in Nat
    BY <1>0, KvdbAssumption DEF LocalTypes
<1>6. CASE buf.status # "USED"
    <2>1. PICK j \in Used : j < slot /\ rec[j].koff = buf.koff
        BY <1>s, <1>1, <1>6 DEF ScanInv
    <2>2. slot \notin Used
        BY <1>s, <1>1, <1>5, <2>1 DEF TableInv
    <2>3. Used' = Used /\ \A i \in Used : rec'[i] = rec[i]
        <3>1. \A i \in Used : rec'[i] = rec[i] /\ i # slot
            BY <1>2, <1>5, <2>2
        <3>2. \A i \in Slots : rec'[i].status = "USED" <=> rec[i].status = "USED"
            BY <1>1, <1>2, <1>6, <2>2 DEF Used
        <3> QED BY <3>1, <3>2 DEF Used, Slots
    <2>4. Refs' \subseteq Refs
        BY <1>1, <1>4, <2>3 DEF Refs, Pair
    <2>5. RefsGood'
        BY <1>s, <1>1, <1>n, <2>4, RefsKept
    <2>6. TableInv'
        BY <1>s, <1>1, <2>3 DEF TableInv
    <2>7. \A i : (Covered(i)' <=> Covered(i)) /\ (Skipped(i)' <=> Skipped(i))
        BY <1>1, <2>3 DEF Covered, Skipped, Pair
    <2>8. LastInv'
        BY <1>s, <1>1, <1>4, <2>7 DEF LastInv
    <2>9. ScanInv'
        <3>1. j \in Used' /\ j <= slot' /\ rec'[j].koff = buf'.koff
            BY <1>1, <1>5, <2>1, <2>3
        <3> QED BY <1>1, <3>1 DEF ScanInv
    <2> QED BY <1>3, <2>5, <2>6, <2>8, <2>9 DEF Sane
<1>7. CASE buf.status = "USED"
    <2>1. /\ \A m \in Slots : m < slot => m \in Used /\ rec[m].koff # buf.koff
          /\ \/ at \in LogUse /\ Pair(buf) = Pair(log[at])
             \/ at > Len(log) /\ Pair(buf) \in {Pair(rec[j]) : j \in Used}
        BY <1>s, <1>1, <1>7 DEF ScanInv
    <2>2. \A j \in Used : j # slot => rec[j].koff # buf.koff
        <3> SUFFICES ASSUME NEW j \in Used, j # slot, rec[j].koff = buf.koff PROVE FALSE
            OBVIOUS
        <3>1. slot < j
            BY <1>1, <1>5, <2>1
        <3>2. slot \in Used
            BY <1>s, <1>1, <1>5, <3>1 DEF TableInv
        <3> QED BY <1>s, <1>1, <3>2 DEF TableInv
    <2>3. at \in LogUse /\ Pair(buf) = Pair(log[at])
        <3> SUFFICES ASSUME NEW j \in Used, Pair(buf) = Pair(rec[j]) PROVE FALSE
            BY <2>1
        <3>1. rec[j].koff = buf.koff /\ rec[j].voff = buf.voff
            BY DEF Pair
        <3> QED BY <1>1, <2>2, <3>1
    <2>4. Used' = Used \cup {slot}
        BY <1>1, <1>2, <1>7 DEF Used
    <2>5. Pair(rec'[slot]) = Pair(log[at]) /\ \A j \in Used' : j # slot => j \in Used /\ rec'[j] = rec[j]
        <3>1. Pair(rec'[slot]) = Pair(buf)
            BY <1>2 DEF Pair
        <3> QED BY <1>2, <1>5, <2>3, <2>4, <3>1
    <2>6. RefsGood'
        <3>1. Refs' = {Pair(rec'[j]) : j \in Used'} \cup {Pair(log[i]) : i \in LogUse}
            BY <1>1, <1>4 DEF Refs, Pair
        <3>2. \A j \in Used' : Pair(rec'[j]) \in Refs
            BY <2>3, <2>5 DEF Refs
        <3>3. Refs' \subseteq Refs
            BY <3>1, <3>2 DEF Refs
        <3> QED BY <1>s, <1>1, <1>n, <3>3, RefsKept
    <2>7. TableInv'
        <3>1. ASSUME NEW i \in Slots, NEW j \in Slots, i < j, j \in Used' PROVE i \in Used'
            BY <1>s, <2>1, <2>4, <3>1 DEF TableInv
        <3>2. ASSUME NEW i \in Used', NEW j \in Used', rec'[i].koff = rec'[j].koff PROVE i = j
            BY <1>s, <1>2, <2>2, <2>5, <3>2 DEF TableInv
        <3>3. log' # << >>
            BY <1>1, <2>3 DEF LogUse
        <3>4. Slots' = Slots
            BY DEF Slots
        <3> QED BY <3>1, <3>2, <3>3, <3>4 DEF TableInv
    <2>8. LastInv'
        <3>1. ASSUME Len(log) = 1 PROVE Covered(1)'
            <4>1. at = 1
                BY <2>3, <3>1 DEF LogUse
            <4>2. /\ rec'[slot].koff = log'[1].koff /\ rec'[slot].voff = log'[1].voff
                  /\ rec'[slot].voff \in Nat
                BY <1>0, <1>1, <1>2, <2>5, <4>1 DEF Pair, LocalTypes
            <4> QED BY <2>4, <4>2 DEF Covered
        <3> QED BY <1>s, <1>1, <1>4, <3>1 DEF LastInv
    <2>9. ScanInv'
        <3>1. slot \in Used' /\ slot <= slot' /\ rec'[slot].koff = buf'.koff
            BY <1>1, <1>2, <1>5, <2>4
        <3> QED BY <1>1, <3>1 DEF ScanInv
    <2> QED BY <1>3, <2>6, <2>7, <2>8, <2>9 DEF Sane
<1> QED BY <1>6, <1>7

\* recover disables the entry; what it looks for from there is in the table before slot.
LEMMA DisablesStep == ASSUME JournalInv, Sane, RecoverDisables PROVE Sane'
<1>0. FileTypes /\ LocalTypes /\ CountInv
    BY DEF JournalInv
<1>s. RefsGood /\ TableInv /\ LastInv /\ ScanInv /\ PutInv /\ CoverInv
    BY DEF Sane
<1>1. /\ pc = "rec_free" /\ pc' = "rec_scan" /\ slot' = slot + 1
      /\ log' = [log EXCEPT ![at].status = "FREE", ![at].end = TRUE]
      /\ buf' = [buf EXCEPT !.status = "FREE"]
      /\ UNCHANGED <<data, rec, put, at, puts>>
    BY DEF RecoverDisables, counts
<1>2. Used' = Used /\ Used \subseteq Slots /\ Slots \subseteq Int
    BY <1>1 DEF Used, Slots
<1>3. Len(log') = Len(log) /\ Len(log) \in Nat /\ \A i \in 1 .. Len(log) : log[i] \in Entries
    BY <1>0, <1>1 DEF FileTypes
<1>4. \A i \in 1 .. Len(log) :
         /\ i # at => log'[i] = log[i]
         /\ i = at => log'[i].status = "FREE" /\ log'[i].end
    BY <1>0, <1>1, <1>3 DEF FileTypes, Entries
<1>5. LogUse' \subseteq LogUse /\ at \notin LogUse' /\ \A i \in LogUse' : log'[i] = log[i]
    BY <1>1, <1>3, <1>4 DEF LogUse
<1>6. PutInv' /\ CoverInv'
    BY <1>1 DEF PutInv, CoverInv
<1>7. RefsGood'
    <2>1. Refs' \subseteq Refs
        BY <1>1, <1>2, <1>5 DEF Refs, Pair
    <2>2. puts \in Nat
        BY <1>0, KvdbAssumption DEF LocalTypes
    <2> QED BY <1>s, <1>1, <2>1, <2>2, RefsKept
<1>8. TableInv'
    <2>1. log' = << >> => log = << >>
        BY <1>0, <1>3 DEF FileTypes
    <2> QED BY <1>s, <1>1, <1>2, <2>1 DEF TableInv
<1>9. LastInv'
    <2>1. \A i \in 1 .. Len(log') : ~log'[i].end => i = Len(log')
        BY <1>s, <1>3, <1>4 DEF LastInv
    <2>2. ASSUME Len(log') = 1, 1 \in LogUse', ~log'[1].end PROVE Covered(1)' \/ Skipped(1)'
        <3>1. log'[1] = log[1] /\ 1 \in LogUse
            BY <1>5, <2>2
        <3>2. Covered(1) \/ Skipped(1)
            BY <1>s, <1>3, <2>2, <3>1 DEF LastInv
        <3> QED BY <1>1, <1>2, <1>3, <3>1, <3>2 DEF Covered, Skipped, Pair
    <2> QED BY <2>1, <2>2 DEF LastInv
<1>10. ScanInv'
    <2>1. PICK j \in Used : j <= slot /\ rec[j].koff = buf.koff
        BY <1>s, <1>1 DEF ScanInv
    <2>2. buf'.status = "FREE" /\ buf'.koff = buf.koff
        BY <1>0, <1>1 DEF LocalTypes
    <2>3. j \in Used' /\ j < slot' /\ rec'[j].koff = buf'.koff
        BY <1>0, <1>1, <1>2, <2>1, <2>2 DEF LocalTypes
    <2> QED BY <1>1, <2>2, <2>3 DEF ScanInv
<1> QED BY <1>6, <1>7, <1>8, <1>9, <1>10 DEF Sane

\* The end of a process and a search of kvdb_get change nothing that is in the files.
LEMMA EndStep == ASSUME JournalInv, Sane, Close \/ Crash \/ \E k \in Keys : Get(k) PROVE Sane'
<1>0. puts \in Nat
    BY KvdbAssumption DEF JournalInv, LocalTypes
<1>1. ASSUME Close \/ Crash PROVE Sane'
    <2>1. pc' = "down" /\ buf' = NoBuf /\ UNCHANGED <<data, rec, log, puts>>
        BY <1>1 DEF Close, Crash, files, counts
    <2>2. RefsGood' /\ TableInv' /\ LastInv'
        BY <1>0, <2>1, NothingWritten DEF Following
    <2>3. ScanInv' /\ PutInv' /\ CoverInv'
        BY <2>1 DEF ScanInv, PutInv, CoverInv
    <2> QED BY <2>2, <2>3 DEF Sane
<1>2. ASSUME NEW k \in Keys, Get(k) PROVE Sane'
    <2>1. pc = "idle" /\ UNCHANGED <<pc, data, rec, log, put, puts>>
        BY <1>2 DEF Get, files, locals, counts
    <2>2. RefsGood' /\ TableInv' /\ LastInv'
        BY <1>0, <2>1, NothingWritten DEF Following
    <2>3. LogUse' = LogUse /\ \A i : (Covered(i)' <=> Covered(i)) /\ (Skipped(i)' <=> Skipped(i))
        BY <2>1, SameFiles
    <2>4. CoverInv'
        BY <2>1, <2>3 DEF Sane, CoverInv
    <2>5. ScanInv' /\ PutInv'
        BY <2>1 DEF ScanInv, PutInv
    <2> QED BY <2>2, <2>4, <2>5 DEF Sane
<1> QED BY <1>1, <1>2
------------------------------------------------------------------------------
(***************************************************************************)
(* The pairs of offsets: the steps of kvdb_put                             *)
(***************************************************************************)
\* What the rest of kvdb_put relies on, from where it begins.
LEMMA CallBegins ==
    ASSUME JournalInv, Sane, pc = "idle", pc' = "data", puts' = puts + 1,
           UNCHANGED <<data, rec, log>>,
           put'.recno \in Slots, \A m \in Slots : m < put'.recno => m \in Used,
           \A j \in Used : rec[j].voff < put'.voff /\ (rec[j].koff = put'.koff <=> j = put'.recno),
           Used = {} => Pair(put') = <<1, 2>>,
           put'.base \in Nat \ {0}, put'.base < 2 * puts',
           \A j \in Used : rec[j].voff < put'.base,
           \/ /\ put'.koff = put'.base /\ put'.voff = put'.base + 1
              /\ \A j \in Used : data[rec[j].koff].key # op'.key
           \/ put'.recno \in Used /\ put'.voff = put'.base /\ data[put'.koff].key = op'.key
    PROVE  Sane'
<1>1. puts \in Nat
    BY KvdbAssumption DEF JournalInv, LocalTypes
<1>2. RefsGood' /\ TableInv' /\ LastInv'
    BY <1>1, NothingWritten DEF Following
<1>3. Used' = Used /\ LogUse' = LogUse
      /\ \A i : (Covered(i)' <=> Covered(i)) /\ (Skipped(i)' <=> Skipped(i))
    BY SameFiles
<1>4. ScanInv' /\ CoverInv'
    BY <1>3 DEF Sane, ScanInv, CoverInv
<1>5. PutInv'
    BY <1>3 DEF PutInv, Slots, Pair
<1> QED BY <1>2, <1>4, <1>5 DEF Sane

\* kvdb_put begins: offsets above all in the table, and the record of the key or the
\* first slot not in use.
LEMMA CallStep ==
    ASSUME JournalInv, Sane, NEW k \in Keys, NEW v \in Values, PutCall(k, v)
    PROVE  Sane'
<1> DEFINE ends == {rec[j].voff + 1 : j \in InUse} \cup {DataLo}
           base == Max(ends)
           known == WithKey(k) # {}
           open == {i \in Slots : rec[i].status # "USED"}
<1>0. FileTypes /\ LocalTypes /\ puts \in Nat
    BY KvdbAssumption DEF JournalInv, LocalTypes
<1>s. RefsGood /\ TableInv /\ LastInv /\ ScanInv /\ PutInv /\ CoverInv
    BY DEF Sane
<1>1. /\ pc = "idle" /\ pc' = "data" /\ puts' = puts + 1
      /\ op'.key = k
      /\ UNCHANGED <<data, rec, log>>
      /\ known \/ InUse # Slots
      /\ put'.koff = IF known THEN rec[put'.recno].koff ELSE base
      /\ put'.voff = IF known THEN base ELSE base + 1
      /\ put'.recno = IF known THEN Min(WithKey(k)) ELSE Min(open)
      /\ put'.base = base
    BY DEF PutCall, files
<1>2. InUse = Used /\ Used \subseteq Slots /\ Slots \subseteq Nat
    BY <1>s, TableUsed DEF Used, Slots
<1>3. base \in ends /\ base \in Nat /\ \A x \in ends : base >= x
    BY <1>0, EndOfValues
<1>4. \A j \in Used :
         /\ Pair(rec[j]) \in Refs /\ rec[j].koff \in Nat /\ rec[j].voff \in Nat
         /\ rec[j].koff < rec[j].voff /\ rec[j].voff <= 2 * puts
         /\ data[rec[j].koff].val = NoValue
    <2> SUFFICES ASSUME NEW j \in Used
                 PROVE  /\ Pair(rec[j]) \in Refs /\ rec[j].koff \in Nat /\ rec[j].voff \in Nat
                        /\ rec[j].koff < rec[j].voff /\ rec[j].voff <= 2 * puts
                        /\ data[rec[j].koff].val = NoValue
        OBVIOUS
    <2>1. Pair(rec[j]) \in Refs
        BY DEF Refs
    <2> QED BY <1>s, <2>1 DEF RefsGood, Pair
<1>5. \A j \in Used : rec[j].voff < base
    <2> SUFFICES ASSUME NEW j \in Used PROVE rec[j].voff < base
        OBVIOUS
    <2>1. rec[j].voff + 1 \in ends
        BY <1>2
    <2> HIDE DEF ends
    <2> QED BY <1>3, <1>4, <2>1
<1>6. base \in Nat \ {0} /\ base < 2 * puts' /\ (Used = {} => base = 1)
    <2>1. 1 \in ends
        BY DEF DataLo
    <2>2. base >= 1
        <3> HIDE DEF ends
        <3> QED BY <1>3, <2>1
    <2>3. base = 1 \/ \E j \in Used : base = rec[j].voff + 1
        BY <1>2, <1>3 DEF DataLo
    <2> HIDE DEF base, ends
    <2>4. base \in Nat \ {0} /\ (Used = {} => base = 1)
        BY <1>3, <2>2, <2>3
    <2>5. base < 2 * puts'
        <3>1. CASE base = 1
            BY <1>0, <1>1, <3>1
        <3>2. ASSUME NEW j \in Used, base = rec[j].voff + 1 PROVE base < 2 * puts'
            BY <1>0, <1>1, <1>4, <3>2
        <3> QED BY <2>3, <3>1, <3>2
    <2> QED BY <2>4, <2>5
<1>7. \A j \in Used : KeyAt(j) = data[rec[j].koff].key
    BY <1>4 DEF KeyAt
<1>8. CASE known
    <2>1. WithKey(k) \subseteq Used
        BY <1>2 DEF WithKey
    <2>2. \E i \in WithKey(k) : \A j \in WithKey(k) : i <= j
        <3>1. WithKey(k) \subseteq Nat
            BY <1>2, <2>1
        <3> QED BY <1>8, <3>1, LeastNumber
    <2>3. Min(WithKey(k)) \in WithKey(k)
        BY <2>2 DEF Min
    <2> DEFINE r == put'.recno
    <2>4. r \in Used /\ data[rec[r].koff].key = k
        BY <1>1, <1>7, <1>8, <2>1, <2>3 DEF WithKey
    <2> HIDE DEF known, base
    <2>5. put'.koff = rec[r].koff /\ put'.voff = base /\ put'.base = base
        BY <1>1, <1>8
    <2>6. \A m \in Slots : m < r => m \in Used
        BY <1>s, <1>2, <2>4 DEF TableInv
    <2>7. \A j \in Used : rec[j].koff = put'.koff <=> j = r
        BY <1>s, <2>4, <2>5 DEF TableInv
    <2> QED BY <1>1, <1>2, <1>5, <1>6, <2>4, <2>5, <2>6, <2>7, CallBegins
<1>9. CASE ~known
    <2>1. open # {} /\ open \subseteq Nat
        <3>1. Used # Slots
            BY <1>1, <1>2, <1>9
        <3> QED BY <1>2, <3>1 DEF Used
    <2>2. \E i \in open : \A j \in open : i <= j
        <3> HIDE DEF open
        <3> QED BY <2>1, LeastNumber
    <2>3. Min(open) \in open /\ \A j \in open : Min(open) <= j
        <3> HIDE DEF open
        <3> QED BY <2>2 DEF Min
    <2> DEFINE r == put'.recno
    <2>4. r \in open /\ \A j \in open : r <= j
        BY <1>1, <1>9, <2>3
    <2>5. \A j \in Used : data[rec[j].koff].key # k
        BY <1>2, <1>7, <1>9 DEF WithKey
    <2> HIDE DEF known, base
    <2>6. put'.koff = base /\ put'.voff = base + 1 /\ put'.base = base
        BY <1>1, <1>9
    <2>7. r \in Slots /\ r \notin Used
        BY <2>4 DEF Used
    <2>8. \A m \in Slots : m < r => m \in Used
        <3> SUFFICES ASSUME NEW m \in Slots, m < r, m \notin Used PROVE FALSE
            OBVIOUS
        <3>1. m \in open
            BY DEF Used
        <3>2. r <= m /\ m \in Nat /\ r \in Nat
            BY <1>2, <2>4, <2>7, <3>1
        <3> HIDE DEF r
        <3> QED BY <3>2
    <2>9. \A j \in Used : rec[j].koff = put'.koff <=> j = r
        BY <1>4, <1>5, <1>6, <2>6, <2>7
    <2>10. \A j \in Used : rec[j].voff < put'.voff
        BY <1>4, <1>5, <1>6, <2>6
    <2>11. Used = {} => Pair(put') = <<1, 2>>
        BY <1>6, <2>6 DEF Pair
    <2> QED BY <1>1, <1>5, <1>6, <2>5, <2>6, <2>7, <2>8, <2>9, <2>10, <2>11, CallBegins
<1> QED BY <1>8, <1>9

\* What is written of key and value leaves all bytes below base, and so all that a
\* record leads to.
LEMMA DataGood ==
    ASSUME JournalInv, Sane, pc = "data", pc' = "log_find",
           UNCHANGED <<rec, log, put, puts, op>>,
           put.koff \in Nat \ {0}, put.voff \in Nat, put.base \in Nat,
           put.koff < put.voff, put.voff <= 2 * puts,
           \A j \in Used : rec[j].voff < put.base,
           data'[put.voff].key = op.key, data'[put.voff].val = op.val,
           data'[put.koff].key = op.key, data'[put.koff].val = NoValue,
           \A o \in Offsets : o < put.base => data'[o] = data[o],
           \A j \in Used : data[rec[j].koff].key = op.key => rec[j].koff = put.koff,
           Used = {} => Pair(put) = <<1, 2>>
    PROVE  Sane'
<1> DEFINE p == Pair(put)
<1>0. FileTypes /\ LocalTypes
    BY DEF JournalInv
<1>s. RefsGood /\ TableInv /\ LastInv /\ PutInv /\ CoverInv
    BY DEF Sane
<1>1. Used' = Used /\ LogUse' = LogUse
      /\ \A i : (Covered(i)' <=> Covered(i)) /\ (Skipped(i)' <=> Skipped(i))
    BY SameFiles
<1>2. op.key # NoValue /\ op.val # NoValue
    BY <1>0, KvdbAssumption DEF LocalTypes, Ops
<1>3. Refs' = Refs \cup {p}
    BY <1>1 DEF Refs, Pair
<1>4. \A r \in Refs : r = p \/ (r[2] < put.base /\ \E j \in Used : rec[j].koff = r[1])
    <2> SUFFICES ASSUME NEW r \in Refs, r # p
                 PROVE  r[2] < put.base /\ \E j \in Used : rec[j].koff = r[1]
        OBVIOUS
    <2>1. \A j \in Used : rec[j].koff \in Nat /\ rec[j].voff \in Nat
        BY <1>0 DEF FileTypes, Used
    <2>2. ASSUME NEW j \in Used, r = Pair(rec[j])
          PROVE  r[2] < put.base /\ \E m \in Used : rec[m].koff = r[1]
        BY <2>2 DEF Pair
    <2>3. ASSUME NEW i \in LogUse, r = Pair(log[i])
          PROVE  r[2] < put.base /\ \E m \in Used : rec[m].koff = r[1]
        <3>1. Covered(i)
            <4>1. Covered(i) \/ Skipped(i)
                BY <1>s DEF CoverInv
            <4>2. Skipped(i) => r = p
                BY <2>3 DEF Skipped
            <4> QED BY <4>1, <4>2
        <3>2. PICK j \in Used : rec[j].koff = log[i].koff /\ rec[j].voff >= log[i].voff
            BY <3>1 DEF Covered
        <3>3. log[i].voff \in Nat
            <4>1. log[i] \in Entries
                BY <1>0 DEF FileTypes, LogUse
            <4> QED BY <4>1 DEF Entries
        <3>4. rec[j].koff = r[1] /\ r[2] <= rec[j].voff /\ r[2] \in Nat
            BY <2>3, <3>2, <3>3, <2>1 DEF Pair
        <3>5. rec[j].voff < put.base
            OBVIOUS
        <3> QED BY <2>1, <3>4, <3>5
    <2> QED BY <2>2, <2>3 DEF Refs
<1>5. \A r \in Refs' :
         /\ r[1] \in Nat \ {0} /\ r[2] \in Nat /\ r[1] < r[2] /\ r[2] <= 2 * puts'
         /\ data'[r[1]].key # NoValue /\ data'[r[1]].val = NoValue
         /\ data'[r[2]].val # NoValue /\ data'[r[2]].key = data'[r[1]].key
    <2> SUFFICES ASSUME NEW r \in Refs'
                 PROVE  /\ r[1] \in Nat \ {0} /\ r[2] \in Nat /\ r[1] < r[2] /\ r[2] <= 2 * puts
                        /\ data'[r[1]].key # NoValue /\ data'[r[1]].val = NoValue
                        /\ data'[r[2]].val # NoValue /\ data'[r[2]].key = data'[r[1]].key
        OBVIOUS
    <2>1. CASE r = p
        BY <1>2, <2>1 DEF Pair
    <2>2. CASE r # p
        <3>1. r \in Refs /\ r[2] < put.base
            BY <1>3, <1>4, <2>2
        <3>2. /\ r[1] \in Nat \ {0} /\ r[2] \in Nat /\ r[1] < r[2] /\ r[2] <= 2 * puts
              /\ data[r[1]].key # NoValue /\ data[r[1]].val = NoValue
              /\ data[r[2]].val # NoValue /\ data[r[2]].key = data[r[1]].key
            BY <1>s, <3>1 DEF RefsGood
        <3>3. r[1] < put.base
            BY <3>1, <3>2
        <3>4. r[1] \in Offsets /\ r[2] \in Offsets
            BY <1>0, <3>2, KvdbAssumption DEF LocalTypes, Offsets, DataLo
        <3>5. data'[r[1]] = data[r[1]] /\ data'[r[2]] = data[r[2]]
            BY <3>1, <3>3, <3>4
        <3> QED BY <3>2, <3>5
    <2> QED BY <2>1, <2>2
<1>6. \A r \in Refs' : r # p =>
         /\ r \in Refs /\ data'[r[1]] = data[r[1]]
         /\ data[r[1]].key = op.key => r[1] = p[1]
    <2> SUFFICES ASSUME NEW r \in Refs', r # p
                 PROVE  /\ r \in Refs /\ data'[r[1]] = data[r[1]]
                        /\ data[r[1]].key = op.key => r[1] = p[1]
        OBVIOUS
    <2>1. r \in Refs /\ r[2] < put.base /\ \E j \in Used : rec[j].koff = r[1]
        BY <1>3, <1>4
    <2>2. r[1] \in Nat \ {0} /\ r[2] \in Nat /\ r[1] < r[2] /\ r[2] <= 2 * puts
        BY <1>s, <2>1 DEF RefsGood
    <2>3. r[1] < put.base /\ r[1] \in Offsets
        BY <1>0, <2>1, <2>2, KvdbAssumption DEF LocalTypes, Offsets, DataLo
    <2> QED BY <2>3, <2>1, <2>2 DEF Pair
<1>7. \A r, s \in Refs' : data'[r[1]].key = data'[s[1]].key => r[1] = s[1]
    <2>1. data'[p[1]].key = op.key
        BY DEF Pair
    <2> HIDE DEF p
    <2> QED BY <1>s, <1>6, <2>1 DEF RefsGood
<1>8. RefsGood'
    BY <1>5, <1>7 DEF RefsGood
<1>9. TableInv' /\ LastInv'
    BY <1>s, <1>1 DEF TableInv, LastInv
<1>10. ScanInv' /\ CoverInv'
    BY <1>s, <1>1 DEF ScanInv, CoverInv
<1>11. PutInv'
    BY <1>s, <1>1 DEF PutInv, Slots, Pair
<1> QED BY <1>8, <1>9, <1>10, <1>11 DEF Sane

\* Key and value of the put are in the cells its pair leads to, and nothing below base
\* has changed.
LEMMA DataWritten ==
    ASSUME JournalInv, Sane, PutData
    PROVE  /\ pc = "data" /\ pc' = "log_find" /\ UNCHANGED <<rec, log, put, puts, op>>
           /\ put.koff \in Nat \ {0} /\ put.voff \in Nat /\ put.base \in Nat
           /\ put.koff < put.voff /\ put.voff <= 2 * puts
           /\ \A j \in Used : rec[j].voff < put.base
           /\ data'[put.voff].key = op.key /\ data'[put.voff].val = op.val
           /\ data'[put.koff].key = op.key /\ data'[put.koff].val = NoValue
           /\ \A o \in Offsets : o < put.base => data'[o] = data[o]
           /\ \A j \in Used : data[rec[j].koff].key = op.key => rec[j].koff = put.koff
           /\ Used = {} => Pair(put) = <<1, 2>>
<1> DEFINE p == Pair(put)
<1>0. FileTypes /\ LocalTypes /\ puts \in Nat /\ MaxPuts \in Nat /\ puts <= MaxPuts
    BY KvdbAssumption DEF JournalInv, LocalTypes
<1>s. RefsGood /\ TableInv /\ PutInv /\ CoverInv
    BY DEF Sane
<1>1. /\ pc = "data" /\ pc' = "log_find"
      /\ UNCHANGED <<rec, log, put, puts, op>>
    BY DEF PutData, locals, counts
<1>2. put.koff \in Nat /\ put.voff \in Nat /\ put.base \in Nat
    BY <1>0 DEF LocalTypes
<1>3. /\ \A j \in Used : rec[j].voff < put.base
      /\ \A j \in Used : rec[j].koff = put.koff <=> j = put.recno
      /\ put.base \in Nat \ {0} /\ put.base < 2 * puts
      /\ Used = {} => p = <<1, 2>>
    BY <1>s, <1>1 DEF PutInv
<1>4. \A j \in Used : Pair(rec[j]) \in Refs
    BY DEF Refs
<1>5. CASE put.recno \notin Used
    <2>1. put.koff = put.base /\ put.voff = put.base + 1
          /\ \A j \in Used : data[rec[j].koff].key # op.key
        BY <1>s, <1>1, <1>5 DEF PutInv
    <2>2. put.koff \in Offsets /\ put.voff \in Offsets
        BY <1>0, <1>3, <2>1 DEF Offsets, DataLo
    <2>3. data' = [data EXCEPT ![put.voff] = [key |-> op.key, val |-> op.val],
                               ![put.koff] = [key |-> op.key, val |-> NoValue]]
        BY <2>1 DEF PutData
    <2>4. /\ data'[put.voff] = [key |-> op.key, val |-> op.val]
          /\ data'[put.koff] = [key |-> op.key, val |-> NoValue]
        BY <1>0, <1>2, <2>1, <2>2, <2>3 DEF FileTypes
    <2>5. \A o \in Offsets : o < put.base => data'[o] = data[o]
        BY <1>0, <1>2, <2>1, <2>2, <2>3 DEF FileTypes
    <2>6. \A j \in Used : data[rec[j].koff].key = op.key => rec[j].koff = put.koff
        BY <2>1
    <2>7. put.koff \in Nat \ {0} /\ put.koff < put.voff /\ put.voff <= 2 * puts
        BY <1>0, <1>2, <1>3, <2>1
    <2>8. /\ data'[put.voff].key = op.key /\ data'[put.voff].val = op.val
          /\ data'[put.koff].key = op.key /\ data'[put.koff].val = NoValue
        BY <2>4
    <2> QED BY <1>1, <1>2, <1>3, <2>5, <2>6, <2>7, <2>8
<1>6. CASE put.recno \in Used
    <2>2. PICK r \in Used : r = put.recno /\ rec[r].koff = put.koff /\ rec[r].voff < put.base
        BY <1>3, <1>6
    <2>3. /\ put.koff \in Nat \ {0} /\ rec[r].voff \in Nat /\ put.koff < rec[r].voff
          /\ data[put.koff].val = NoValue /\ Pair(rec[r])[1] = put.koff
        BY <1>s, <1>4, <2>2 DEF RefsGood, Pair
    <2>4. put.koff < put.base
        BY <1>2, <2>2, <2>3
    <2>1. put.voff = put.base /\ data[put.koff].key = op.key
        BY <1>s, <1>1, <1>2, <2>4 DEF PutInv
    <2>5. put.voff \in Offsets
        BY <1>0, <1>3, <2>1 DEF Offsets, DataLo
    <2>6. data' = [data EXCEPT ![put.voff] = [key |-> op.key, val |-> op.val]]
        BY <1>2, <2>4 DEF PutData
    <2>7. /\ data'[put.voff] = [key |-> op.key, val |-> op.val]
          /\ \A o \in Offsets : o < put.base => data'[o] = data[o]
        <3>1. data'[put.voff] = [key |-> op.key, val |-> op.val]
            BY <1>0, <2>5, <2>6 DEF FileTypes
        <3>2. \A o \in Offsets : o # put.voff => data'[o] = data[o]
            BY <1>0, <2>6 DEF FileTypes
        <3>3. Offsets \subseteq Int
            BY DEF Offsets
        <3> QED BY <1>2, <2>1, <3>1, <3>2, <3>3
    <2>8. data'[put.koff].key = op.key /\ data'[put.koff].val = NoValue
        <3>1. put.koff \in Offsets
            BY <1>0, <1>2, <1>3, <2>3, <2>4 DEF Offsets, DataLo
        <3> QED BY <2>1, <2>3, <2>4, <2>7, <3>1
    <2>9. \A j \in Used : data[rec[j].koff].key = op.key => rec[j].koff = put.koff
        <3> SUFFICES ASSUME NEW j \in Used, data[rec[j].koff].key = op.key
                     PROVE  rec[j].koff = put.koff
            OBVIOUS
        <3>1. data[Pair(rec[j])[1]].key = data[Pair(rec[r])[1]].key
            BY <2>1, <2>2 DEF Pair
        <3>2. Pair(rec[j])[1] = Pair(rec[r])[1]
            BY <1>s, <1>4, <3>1 DEF RefsGood
        <3> QED BY <2>2, <3>2 DEF Pair
    <2>10. put.koff \in Nat \ {0} /\ put.koff < put.voff /\ put.voff <= 2 * puts
        BY <1>0, <1>2, <1>3, <2>1, <2>3, <2>4
    <2>11. data'[put.voff].key = op.key /\ data'[put.voff].val = op.val
        BY <2>7
    <2> QED BY <1>1, <1>2, <1>3, <2>7, <2>8, <2>9, <2>10, <2>11
<1> QED BY <1>5, <1>6

\* Key and value are written above all that any record or entry refers to, or, if the
\* journal holds no more than an entry recover has passed over, where that one points.
LEMMA DataStep == ASSUME JournalInv, Sane, PutData PROVE Sane'
BY DataWritten, DataGood

\* kvdb_put finds an entry that is not in use, or takes a new one, but for a journal
\* that ends with a short one; where the journal has room, no entry has been passed over.
LEMMA FindsStep == ASSUME JournalInv, Sane, PutFindsEntry PROVE Sane'
<1> DEFINE unused == {i \in 1 .. Len(log) : log[i].status # "USED"}
<1>0. FileTypes /\ LocalTypes /\ puts \in Nat
    BY KvdbAssumption DEF JournalInv, LocalTypes
<1>s. RefsGood /\ TableInv /\ LastInv /\ PutInv /\ CoverInv
    BY DEF Sane
<1>1. pc = "log_find" /\ UNCHANGED <<data, rec, log, nr, puts>>
      /\ pc' \in {"log_entry", "log_head", "put_stuck"}
    BY DEF PutFindsEntry, files, counts
<1>2. put'.koff = put.koff /\ put'.voff = put.voff /\ put'.recno = put.recno
    BY <1>0 DEF PutFindsEntry, LocalTypes
<1>3. RefsGood' /\ TableInv' /\ LastInv'
    BY <1>0, <1>1, <1>2, NothingWritten DEF Following, Pair
<1>4. Used' = Used /\ LogUse' = LogUse
      /\ \A i : (Covered(i)' <=> Covered(i)) /\ (Skipped(i)' <=> Skipped(i))
    BY <1>1, SameFiles
<1>5. ScanInv'
    BY <1>1 DEF ScanInv
<1>6. Len(log) \in Nat /\ log \in Seq(Entries)
    BY <1>0 DEF FileTypes
<1>7. CASE unused # {}
    <2>1. put'.entry = Min(unused) /\ pc' = "log_entry"
        BY <1>0, <1>7 DEF PutFindsEntry, LocalTypes
    <2>2. put'.entry \in 1 .. Len(log) /\ log[put'.entry].status # "USED"
        BY <1>0, <1>7, <2>1, FirstUnused
    <2>3. ~(put'.entry > Len(log)) /\ put'.entry \notin LogUse
        BY <1>6, <2>2 DEF LogUse
    <2>4. \A i \in LogUse : Covered(i)
        <3> SUFFICES ASSUME NEW i \in LogUse, Skipped(i) PROVE FALSE
            BY <1>s, <1>1 DEF CoverInv
        <3>1. i = put'.entry
            BY <2>2 DEF LogUse, Skipped
        <3> QED BY <2>2, <3>1 DEF LogUse
    <2>5. PutInv'
        BY <1>s, <1>1, <1>2, <1>4, <2>1, <2>3 DEF PutInv, Slots, Pair
    <2>6. CoverInv'
        BY <1>4, <2>1, <2>4 DEF CoverInv
    <2> QED BY <1>3, <1>5, <2>5, <2>6 DEF Sane
<1>8. CASE unused = {} /\ log # << >> /\ ~Last(log).end
    <2>1. pc' = "put_stuck"
        BY <1>8 DEF PutFindsEntry
    <2>2. PutInv' /\ CoverInv'
        BY <2>1 DEF PutInv, CoverInv
    <2> QED BY <1>3, <1>5, <2>2 DEF Sane
<1>9. CASE unused = {} /\ ~(log # << >> /\ ~Last(log).end)
    <2>1. put'.entry = Len(log) + 1 /\ pc' = "log_head"
        BY <1>0, <1>9 DEF PutFindsEntry, LocalTypes
    <2>2. \A i \in 1 .. Len(log) : log[i].end
        <3> SUFFICES ASSUME NEW i \in 1 .. Len(log), ~log[i].end PROVE FALSE
            OBVIOUS
        <3>1. i = Len(log) /\ log # << >>
            BY <1>s, <1>6 DEF LastInv
        <3> QED BY <1>9, <3>1 DEF Last
    <2>3. \A i \in LogUse : Covered(i)
        <3> SUFFICES ASSUME NEW i \in LogUse, Skipped(i) PROVE FALSE
            BY <1>s, <1>1 DEF CoverInv
        <3> QED BY <2>2 DEF LogUse, Skipped
    <2>4. PutInv'
        BY <1>s, <1>1, <1>2, <1>4, <2>1, <2>2 DEF PutInv, Slots, Pair
    <2>5. CoverInv'
        BY <1>4, <2>1, <2>3 DEF CoverInv
    <2> QED BY <1>3, <1>5, <2>4, <2>5 DEF Sane
<1> QED BY <1>7, <1>8, <1>9

\* The head of the journal refers to nothing.
LEMMA HeadStep == ASSUME JournalInv, Sane, PutHead PROVE Sane'
<1>0. puts \in Nat /\ put.entry = Len(log) + 1 /\ Len(log) \in Nat /\ pc = "log_head"
    BY KvdbAssumption DEF JournalInv, LocalTypes, FileTypes, CountInv, PutHead
<1>1. pc' = "log_entry" /\ UNCHANGED <<data, rec, log, put, puts>>
    BY DEF PutHead, locals, counts
<1>2. RefsGood' /\ TableInv' /\ LastInv'
    BY <1>0, <1>1, NothingWritten DEF Following, Pair
<1>3. Used' = Used /\ LogUse' = LogUse
      /\ \A i : (Covered(i)' <=> Covered(i)) /\ (Skipped(i)' <=> Skipped(i))
    BY <1>1, SameFiles
<1>4. ScanInv' /\ CoverInv'
    BY <1>0, <1>1, <1>3 DEF Sane, ScanInv, CoverInv
<1>5. PutInv'
    <2>1. put.entry \notin LogUse
        BY <1>0 DEF LogUse
    <2> QED BY <1>0, <1>1, <1>3, <2>1 DEF Sane, PutInv, Slots, Pair
<1> QED BY <1>2, <1>4, <1>5 DEF Sane

\* PutEntry changes one entry, or adds one behind all others.
LEMMA EntryWritten ==
    ASSUME JournalInv, PutEntry
    PROVE  /\ Len(log) \in Nat /\ put.entry \in Nat /\ put.entry >= 1
           /\ put.entry <= Len(log) + 1
           /\ Len(log') = IF put.entry <= Len(log) THEN Len(log) ELSE Len(log) + 1
           /\ put.entry \in 1 .. Len(log')
           /\ \A i \in 1 .. Len(log') : i # put.entry => i \in 1 .. Len(log) /\ log'[i] = log[i]
           /\ log'[put.entry].status = "USED" /\ Pair(log'[put.entry]) = Pair(put)
           /\ log'[put.entry].end <=> put.entry <= Len(log)
<1> DEFINE e == put.entry
           new == [status |-> "USED", koff |-> put.koff, voff |-> put.voff, end |-> e <= Len(log)]
<1>0. FileTypes /\ LocalTypes /\ CountInv
    BY DEF JournalInv
<1>1. /\ pc = "log_entry" /\ pc' = "log_end" /\ UNCHANGED <<data, rec, put, puts>>
      /\ log' = IF new.end THEN [log EXCEPT ![e] = new] ELSE Append(log, new)
    BY DEF PutEntry, locals, counts
<1>2. log \in Seq(Entries) /\ Len(log) \in Nat /\ e \in Nat /\ e >= 1 /\ e <= Len(log) + 1
    BY <1>0, <1>1 DEF FileTypes, LocalTypes, CountInv
<1>3. /\ Len(log') = IF e <= Len(log) THEN Len(log) ELSE Len(log) + 1
      /\ log'[e] = new /\ e \in 1 .. Len(log')
      /\ \A i \in 1 .. Len(log') : i # e => i \in 1 .. Len(log) /\ log'[i] = log[i]
    <2>1. new.end <=> e <= Len(log)
        OBVIOUS
    <2> HIDE DEF new
    <2>2. CASE e <= Len(log)
        BY <1>1, <1>2, <2>1, <2>2
    <2>3. CASE ~(e <= Len(log))
        BY <1>1, <1>2, <2>1, <2>3
    <2> QED BY <2>2, <2>3
<1>4. log'[e].status = "USED" /\ Pair(log'[e]) = Pair(put) /\ (log'[e].end <=> e <= Len(log))
    <2>1. log'[e].end <=> e <= Len(log)
        <3>1. new.end <=> e <= Len(log)
            OBVIOUS
        <3> HIDE DEF new
        <3> QED BY <1>3, <3>1
    <2>2. log'[e].status = "USED" /\ log'[e].koff = put.koff /\ log'[e].voff = put.voff
        BY <1>3
    <2> QED BY <2>1, <2>2 DEF Pair
<1> QED BY <1>2, <1>3, <1>4

\* The entry gets the pair of the put; it is short only if it is new, and then all
\* before it are complete.
LEMMA EntryStep == ASSUME JournalInv, Sane, PutEntry PROVE Sane'
<1> DEFINE e == put.entry
<1>0. FileTypes /\ LocalTypes /\ CountInv /\ puts \in Nat
    BY KvdbAssumption DEF JournalInv, LocalTypes
<1>s. RefsGood /\ TableInv /\ LastInv /\ PutInv /\ CoverInv
    BY DEF Sane
<1>1. pc = "log_entry" /\ pc' = "log_end" /\ UNCHANGED <<data, rec, put, puts>>
    BY DEF PutEntry, locals, counts
<1>2. Len(log) \in Nat /\ e \in Nat /\ e >= 1 /\ e <= Len(log) + 1
    BY EntryWritten
<1>3. /\ Len(log') = IF e <= Len(log) THEN Len(log) ELSE Len(log) + 1
      /\ e \in 1 .. Len(log')
      /\ \A i \in 1 .. Len(log') : i # e => i \in 1 .. Len(log) /\ log'[i] = log[i]
    BY EntryWritten
<1>4. log'[e].status = "USED" /\ Pair(log'[e]) = Pair(put) /\ (log'[e].end <=> e <= Len(log))
    BY EntryWritten
<1>5. /\ e \notin LogUse
      /\ e > Len(log) => \A i \in 1 .. Len(log) : log[i].end
      /\ Used = {} => Pair(put) = <<1, 2>>
    BY <1>s, <1>1 DEF PutInv
<1>6. e \in LogUse' /\ \A i \in LogUse' : i # e => i \in LogUse /\ log'[i] = log[i]
    BY <1>3, <1>4 DEF LogUse
<1>7. Used' = Used
    BY <1>1 DEF Used
<1> HIDE DEF e
<1>8. RefsGood'
    <2>1. Pair(put) \in Refs
        BY <1>1 DEF Refs
    <2>2. \A i \in LogUse' : Pair(log'[i]) \in Refs
        BY <1>4, <1>6, <2>1 DEF Refs
    <2>3. Refs' = {Pair(rec[j]) : j \in Used} \cup {Pair(log'[i]) : i \in LogUse'}
        BY <1>1, <1>7 DEF Refs, Pair
    <2>4. Refs' \subseteq Refs
        BY <2>2, <2>3 DEF Refs
    <2> QED BY <1>0, <1>s, <1>1, <2>4, RefsKept
<1>9. TableInv'
    <2>1. log' # << >>
        BY <1>3
    <2> QED BY <1>s, <1>1, <1>7, <2>1 DEF TableInv
<1>10. LastInv'
    <2>1. \A i \in 1 .. Len(log') : ~log'[i].end => i = Len(log')
        BY <1>s, <1>2, <1>3, <1>4, <1>5 DEF LastInv
    <2>2. ASSUME Len(log') = 1, ~log'[1].end PROVE Skipped(1)'
        <3>1. e = 1 /\ Len(log) = 0
            <4>1. e = 1
                BY <1>3, <2>2
            <4>2. ~(1 <= Len(log))
                BY <1>4, <2>2, <4>1
            <4> QED BY <1>2, <4>1, <4>2
        <3>2. Used = {} /\ Pair(put) = <<1, 2>>
            BY <1>s, <1>2, <1>5, <3>1 DEF TableInv
        <3> QED BY <1>4, <1>7, <2>2, <3>1, <3>2 DEF Skipped, Pair
    <2> QED BY <2>1, <2>2 DEF LastInv
<1>11. PutInv'
    BY <1>s, <1>1, <1>4, <1>6, <1>7 DEF PutInv, Slots, Pair, e
<1>12. CoverInv'
    <2>1. \A i \in LogUse' \ {e} : Covered(i)'
        BY <1>s, <1>1, <1>6, <1>7 DEF CoverInv, Covered
    <2> QED BY <1>1, <2>1 DEF CoverInv, e
<1>13. ScanInv'
    BY <1>1 DEF ScanInv
<1> QED BY <1>8, <1>9, <1>10, <1>11, <1>12, <1>13 DEF Sane

\* The end character completes the entry.
LEMMA EndOfEntryStep == ASSUME JournalInv, Sane, PutEnd PROVE Sane'
<1> DEFINE e == put.entry
<1>0. FileTypes /\ LocalTypes /\ CountInv /\ puts \in Nat
    BY KvdbAssumption DEF JournalInv, LocalTypes
<1>s. RefsGood /\ TableInv /\ LastInv /\ PutInv /\ CoverInv
    BY DEF Sane
<1>1. /\ pc = "log_end" /\ pc' = "record" /\ UNCHANGED <<data, rec, put, puts>>
      /\ log' = [log EXCEPT ![e].end = TRUE]
    BY DEF PutEnd, locals, counts
<1>2. log \in Seq(Entries) /\ Len(log) \in Nat /\ e \in 1 .. Len(log)
    BY <1>0, <1>1 DEF FileTypes, CountInv
<1>3. /\ Len(log') = Len(log)
      /\ \A i \in 1 .. Len(log) : i # e => log'[i] = log[i]
      /\ \A i \in 1 .. Len(log) : log'[i].status = log[i].status /\ Pair(log'[i]) = Pair(log[i])
      /\ \A i \in 1 .. Len(log) : log'[i].end <=> log[i].end \/ i = e
    <2>1. Len(log') = Len(log) /\ \A i \in 1 .. Len(log) : i # e => log'[i] = log[i]
        BY <1>1, <1>2
    <2>2. log[e] \in Entries /\ log'[e] = [log[e] EXCEPT !.end = TRUE]
        <3>1. DOMAIN log = 1 .. Len(log) /\ log[e] \in Entries
            BY <1>2
        <3> HIDE DEF e
        <3> QED BY <1>1, <1>2, <3>1
    <2>3. /\ log'[e].status = log[e].status /\ log'[e].koff = log[e].koff
          /\ log'[e].voff = log[e].voff /\ log'[e].end
        BY <2>2 DEF Entries
    <2> QED BY <1>2, <2>1, <2>3 DEF Pair
<1> HIDE DEF e
<1>4. LogUse' = LogUse /\ LogUse \subseteq 1 .. Len(log)
    BY <1>3 DEF LogUse
<1>5. Used' = Used
    BY <1>1 DEF Used
<1>6. \A i \in LogUse : Covered(i)' <=> Covered(i)
    BY <1>1, <1>3, <1>4, <1>5 DEF Covered, Pair
<1>7. RefsGood'
    <2>1. {Pair(log'[i]) : i \in LogUse'} = {Pair(log[i]) : i \in LogUse}
        BY <1>3, <1>4
    <2>2. Refs' = {Pair(rec[j]) : j \in Used} \cup {Pair(log'[i]) : i \in LogUse'}
        BY <1>1, <1>5 DEF Refs, Pair
    <2>3. Refs' \subseteq Refs
        BY <2>1, <2>2 DEF Refs
    <2> QED BY <1>0, <1>s, <1>1, <2>3, RefsKept
<1>8. TableInv'
    <2>1. log' # << >>
        BY <1>2, <1>3
    <2> QED BY <1>s, <1>1, <1>5, <2>1 DEF TableInv
<1>9. LastInv'
    <2>1. \A i \in 1 .. Len(log') : ~log'[i].end => i = Len(log')
        BY <1>s, <1>3 DEF LastInv
    <2>2. Len(log') = 1 => log'[1].end
        BY <1>2, <1>3
    <2> QED BY <2>1, <2>2 DEF LastInv
<1>10. PutInv'
    <2>1. e \in LogUse' /\ Pair(log'[e]) = Pair(put) /\ log'[e].end
        BY <1>s, <1>1, <1>2, <1>3, <1>4 DEF PutInv, e
    <2> QED BY <1>s, <1>1, <1>5, <2>1 DEF PutInv, Slots, Pair, e
<1>11. CoverInv' /\ ScanInv'
    BY <1>s, <1>1, <1>4, <1>6 DEF CoverInv, ScanInv
<1> QED BY <1>7, <1>8, <1>9, <1>10, <1>11 DEF Sane

\* The record covers the entry of the put, and what the record of the key covered.
LEMMA RecordStep == ASSUME JournalInv, Sane, PutRecord PROVE Sane'
<1> DEFINE n == put.recno
           e == put.entry
<1>0. FileTypes /\ LocalTypes /\ CountInv /\ puts \in Nat
    BY KvdbAssumption DEF JournalInv, LocalTypes
<1>s. RefsGood /\ TableInv /\ LastInv /\ PutInv /\ CoverInv
    BY DEF Sane
<1>1. /\ pc = "record" /\ pc' = "log_free" /\ UNCHANGED <<data, log, put, puts>>
      /\ rec' = [rec EXCEPT ![n] = [status |-> "USED", koff |-> put.koff, voff |-> put.voff]]
    BY DEF PutRecord, locals, counts
<1>2. /\ n \in Slots /\ \A m \in Slots : m < n => m \in Used
      /\ \A j \in Used : rec[j].voff < put.voff /\ (rec[j].koff = put.koff <=> j = n)
      /\ e \in LogUse /\ Pair(log[e]) = Pair(put) /\ log[e].end
    BY <1>s, <1>1 DEF PutInv
<1>3. /\ rec'[n] = [status |-> "USED", koff |-> put.koff, voff |-> put.voff]
      /\ \A j \in Slots : j # n => rec'[j] = rec[j]
    BY <1>0, <1>1, <1>2 DEF FileTypes
<1>4. Used' = Used \cup {n} /\ LogUse' = LogUse /\ Used \subseteq Slots
    BY <1>1, <1>2, <1>3 DEF Used, LogUse
<1>5. rec'[n].koff = put.koff /\ rec'[n].voff = put.voff /\ Pair(rec'[n]) = Pair(put)
    BY <1>3 DEF Pair
<1>6. put.voff \in Nat /\ \A j \in Used : rec[j].voff \in Nat
    BY <1>0, <1>4 DEF LocalTypes, FileTypes
<1> HIDE DEF n, e
<1>7. RefsGood'
    <2>1. \A j \in Used' : Pair(rec'[j]) \in Refs
        <3>1. Pair(rec'[n]) \in Refs
            BY <1>2, <1>5 DEF Refs
        <3>2. \A j \in Used : j # n => Pair(rec'[j]) \in Refs
            BY <1>3, <1>4 DEF Refs
        <3> QED BY <1>4, <3>1, <3>2
    <2>2. Refs' = {Pair(rec'[j]) : j \in Used'} \cup {Pair(log[i]) : i \in LogUse}
        BY <1>1, <1>4 DEF Refs, Pair
    <2>3. Refs' \subseteq Refs
        BY <2>1, <2>2 DEF Refs
    <2> QED BY <1>0, <1>s, <1>1, <2>3, RefsKept
<1>8. TableInv'
    <2>1. ASSUME NEW i \in Slots, NEW j \in Slots, i < j, j \in Used' PROVE i \in Used'
        BY <1>s, <1>2, <1>4, <2>1 DEF TableInv
    <2>2. ASSUME NEW i \in Used', NEW j \in Used', rec'[i].koff = rec'[j].koff PROVE i = j
        <3>1. \A m \in Used' : m # n => m \in Used /\ rec'[m].koff # put.koff /\ rec'[m].koff = rec[m].koff
            BY <1>2, <1>3, <1>4
        <3> QED BY <1>s, <1>5, <2>2, <3>1 DEF TableInv
    <2>3. log' # << >>
        BY <1>1, <1>2 DEF LogUse
    <2> QED BY <2>1, <2>2, <2>3 DEF TableInv, Slots
<1>9. LastInv'
    <2>1. Len(log) = 1 => log[1].end
        BY <1>2 DEF LogUse
    <2> QED BY <1>s, <1>1, <2>1 DEF LastInv
<1>10. CoverInv'
    <2>1. \A i \in LogUse : i = e => Covered(i)'
        <3>1. rec'[n].koff = log'[e].koff /\ rec'[n].voff >= log'[e].voff
            <4>1. log[e].koff = put.koff /\ log[e].voff = put.voff
                BY <1>2 DEF Pair
            <4> QED BY <1>1, <1>5, <1>6, <4>1
        <3> QED BY <1>1, <1>4, <3>1 DEF Covered
    <2>2. ASSUME NEW i \in LogUse, i # e PROVE Covered(i)'
        <3>1. Covered(i)
            BY <1>s, <1>1, <2>2 DEF CoverInv, e
        <3>2. PICK j \in Used : rec[j].koff = log[i].koff /\ rec[j].voff >= log[i].voff
            BY <3>1 DEF Covered
        <3>3. CASE j # n
            BY <1>1, <1>3, <1>4, <3>2, <3>3 DEF Covered
        <3>4. CASE j = n
            <4>1. log[i] \in Entries
                BY <1>0 DEF FileTypes, LogUse
            <4>2. rec[j].koff = put.koff /\ rec[j].voff < put.voff /\ log[i].voff \in Nat
                BY <1>2, <3>4, <4>1 DEF Entries
            <4>3. rec'[n].koff = log'[i].koff /\ rec'[n].voff >= log'[i].voff
                BY <1>1, <1>5, <1>6, <3>2, <4>2
            <4> QED BY <1>1, <1>4, <4>3 DEF Covered
        <3> QED BY <3>3, <3>4
    <2>3. \A i \in LogUse' : Covered(i)'
        BY <1>4, <2>1, <2>2
    <2> QED BY <1>1, <2>3 DEF CoverInv
<1>11. PutInv' /\ ScanInv'
    BY <1>1, <1>2 DEF PutInv, ScanInv, e
<1> QED BY <1>7, <1>8, <1>9, <1>10, <1>11 DEF Sane

\* The put is done: the entry need not be covered any more.
LEMMA FreeStep == ASSUME JournalInv, Sane, PutDisables PROVE Sane'
<1> DEFINE e == put.entry
<1>0. FileTypes /\ LocalTypes /\ CountInv /\ puts \in Nat
    BY KvdbAssumption DEF JournalInv, LocalTypes
<1>s. RefsGood /\ TableInv /\ LastInv /\ PutInv /\ CoverInv
    BY DEF Sane
<1>1. /\ pc = "log_free" /\ pc' = "idle" /\ UNCHANGED <<data, rec, puts>>
      /\ log' = [log EXCEPT ![e].status = "FREE"]
    BY DEF PutDisables, counts
<1>2. log \in Seq(Entries) /\ Len(log) \in Nat /\ e \in 1 .. Len(log)
    BY <1>0, <1>1 DEF FileTypes, CountInv
<1>3. /\ Len(log') = Len(log)
      /\ \A i \in 1 .. Len(log) : i # e => log'[i] = log[i]
      /\ log'[e].status = "FREE" /\ (log'[e].end <=> log[e].end)
    <2>1. Len(log') = Len(log) /\ \A i \in 1 .. Len(log) : i # e => log'[i] = log[i]
        BY <1>1, <1>2
    <2>2. log[e] \in Entries /\ log'[e] = [log[e] EXCEPT !.status = "FREE"]
        BY <1>1, <1>2
    <2>3. log'[e].status = "FREE" /\ (log'[e].end <=> log[e].end)
        BY <2>2 DEF Entries
    <2> QED BY <2>1, <2>3
<1> HIDE DEF e
<1>4. \A i \in LogUse' : i \in LogUse /\ log'[i] = log[i] /\ i # e
    BY <1>3 DEF LogUse
<1>5. Used' = Used
    BY <1>1 DEF Used
<1>6. RefsGood'
    <2>1. Refs' \subseteq Refs
        BY <1>1, <1>4, <1>5 DEF Refs
    <2> QED BY <1>0, <1>s, <1>1, <2>1, RefsKept
<1>7. TableInv'
    <2>1. log' # << >>
        BY <1>2, <1>3
    <2> QED BY <1>s, <1>1, <1>5, <2>1 DEF TableInv
<1>8. LastInv'
    <2>1. \A i \in 1 .. Len(log') : ~log'[i].end => i = Len(log')
        BY <1>s, <1>3 DEF LastInv
    <2>2. Len(log') = 1 => 1 \notin LogUse'
        BY <1>2, <1>3, <1>4
    <2> QED BY <2>1, <2>2 DEF LastInv
<1>9. CoverInv'
    <2>1. \A i \in LogUse' : Covered(i)'
        BY <1>s, <1>1, <1>4, <1>5 DEF CoverInv, Covered
    <2> QED BY <1>1, <2>1 DEF CoverInv
<1>10. PutInv' /\ ScanInv'
    BY <1>1 DEF PutInv, ScanInv
<1> QED BY <1>6, <1>7, <1>8, <1>9, <1>10 DEF Sane
------------------------------------------------------------------------------
LEMMA StoreInit == KvdbInit => StoreInv
<1> SUFFICES ASSUME KvdbInit PROVE Sane
    BY DEF StoreInv
<1>1. /\ pc = "down" /\ buf = NoBuf /\ log = << >>
      /\ \A j \in Slots : rec[j] = Blank
    BY DEF KvdbInit
<1>2. Used = {} /\ LogUse = {} /\ Len(log) = 0
    BY <1>1 DEF Used, LogUse, Blank
<1>3. Refs = {}
    BY <1>1, <1>2 DEF Refs
<1>4. RefsGood /\ TableInv /\ LastInv
    BY <1>2, <1>3 DEF RefsGood, TableInv, LastInv
<1>5. ScanInv /\ PutInv /\ CoverInv
    BY <1>1 DEF ScanInv, PutInv, CoverInv
<1> QED BY <1>4, <1>5 DEF Sane

\* A mark stays, and from "ruined" no step is left.
LEMMA StoreStep == JournalInv /\ StoreInv /\ [KvdbNext]_kvVars => StoreInv'
<1> SUFFICES ASSUME JournalInv, StoreInv, [KvdbNext]_kvVars, pc' # "ruined",
                    "free_slot" \notin marks'
             PROVE  Sane'
    BY DEF StoreInv
<1>1. CASE UNCHANGED kvVars
    <2>1. UNCHANGED <<pc, data, rec, log, put, at, slot, buf, op, puts, marks>>
        BY <1>1 DEF kvVars, files, locals, counts
    <2>2. Sane
        BY <2>1 DEF StoreInv
    <2>3. RefsGood' /\ TableInv' /\ LastInv'
        BY <2>1, <2>2, NothingWritten, KvdbAssumption DEF JournalInv, LocalTypes
    <2>4. Used' = Used /\ LogUse' = LogUse
          /\ \A i : (Covered(i)' <=> Covered(i)) /\ (Skipped(i)' <=> Skipped(i))
        BY <2>1, SameFiles
    <2>5. ScanInv'
        BY <2>1, <2>2, <2>4 DEF Sane, ScanInv, FoundUpTo, ToReplay, Slots, Pair
    <2>6. PutInv' /\ CoverInv'
        BY <2>1, <2>2, <2>4 DEF Sane, PutInv, CoverInv, Slots, Pair
    <2> QED BY <2>3, <2>5, <2>6 DEF Sane
<1>2. CASE KvdbNext
    <2>1. marks \subseteq marks'
        BY <1>2 DEF KvdbNext, Recovery, PutStep, Open, RecoverDone, RecoverSkips, RecoverReads,
                    RecoverFinds, RecoverWrites, RecoverDisables, RecoverPasses, RecoverRunsOn,
                    PutData, PutFindsEntry, PutHead, PutEntry, PutEnd, PutRecord, PutDisables,
                    Close, Crash, Get, PutCall, counts
    <2>2. pc # "ruined"
        <3>1. Crash => Here \in CrashPoints
            BY DEF Crash
        <3>2. pc = "ruined" => ~Crash
            BY <3>1, KvdbAssumption DEF Here
        <3> QED BY <1>2, <3>2 DEF KvdbNext, Recovery, PutStep, Open, RecoverDone, RecoverSkips,
                    RecoverReads, RecoverFinds, RecoverWrites, RecoverDisables, RecoverPasses,
                    RecoverRunsOn, PutData, PutFindsEntry, PutHead, PutEntry, PutEnd, PutRecord,
                    PutDisables, Close, Get, PutCall
    <2>3. Sane
        BY <2>1, <2>2 DEF StoreInv
    <2>4. ~RecoverRunsOn
        BY DEF RecoverRunsOn
    <2> QED BY <1>2, <2>3, <2>4, ScanStep, WritesStep, DisablesStep, EndStep, CallStep, DataStep,
               FindsStep, HeadStep, EntryStep, EndOfEntryStep, RecordStep, FreeStep
            DEF KvdbNext, Recovery, PutStep
<1> QED BY <1>1, <1>2

\* Every entry that may be replayed is covered by the table of records, or recover or a
\* put is at work on it, wherever the process dies and how often.
THEOREM StoreInvariant == KvdbSpec => [](JournalInv /\ StoreInv)
<1>1. KvdbInit => JournalInv /\ StoreInv
    BY InvInit, StoreInit
<1>2. (JournalInv /\ StoreInv) /\ [KvdbNext]_kvVars => (JournalInv /\ StoreInv)'
    BY InvStep, StoreStep
<1> QED BY <1>1, <1>2, PTL DEF KvdbSpec

\* A pair of offsets somebody may follow leads to a key and a value of it.
LEMMA RefSound ==
    ASSUME JournalInv, RefsGood, NEW r, Pair(r) \in Refs
    PROVE  Sound(r)
<1>1. puts \in Nat /\ puts <= MaxPuts /\ MaxPuts \in Nat
    BY KvdbAssumption DEF JournalInv, LocalTypes
<1>2. /\ r.koff \in Nat \ {0} /\ r.voff \in Nat /\ r.koff < r.voff /\ r.voff <= 2 * puts
      /\ data[r.koff].key # NoValue /\ data[r.koff].val = NoValue
      /\ data[r.voff].val # NoValue /\ data[r.voff].key = data[r.koff].key
    BY DEF RefsGood, Pair
<1>3. {r.koff, r.voff} \subseteq Offsets
    BY <1>1, <1>2 DEF Offsets, DataLo
<1> QED BY <1>2, <1>3 DEF Sound

\* No record in use is ever led astray by a put, a death, or a replay.
THEOREM RecordsTheorem == KvdbSpec => []RecordsSound
<1>1. JournalInv /\ StoreInv => RecordsSound
    <2> SUFFICES ASSUME JournalInv, Sane
                 PROVE  /\ \A j \in InUse : Sound(rec[j])
                        /\ \A i, j \in InUse : KeyAt(i) = KeyAt(j) => i = j
        BY DEF StoreInv, RecordsSound
    <2>1. InUse = Used /\ RefsGood /\ TableInv
        BY TableUsed DEF Sane
    <2>2. \A j \in Used : Pair(rec[j]) \in Refs
        BY DEF Refs
    <2>3. \A j \in Used : Sound(rec[j])
        BY <2>1, <2>2, RefSound
    <2>4. \A j \in Used : KeyAt(j) = data[Pair(rec[j])[1]].key
        BY <2>3 DEF Sound, KeyAt, Pair
    <2>5. ASSUME NEW i \in Used, NEW j \in Used, KeyAt(i) = KeyAt(j) PROVE i = j
        <3>1. Pair(rec[i])[1] = Pair(rec[j])[1]
            BY <2>1, <2>2, <2>4, <2>5 DEF RefsGood
        <3> QED BY <2>1, <3>1 DEF TableInv, Pair
    <2> QED BY <2>1, <2>3, <2>5
<1> QED BY StoreInvariant, <1>1, PTL

\* No bytes an entry of the journal may bring back are ever used for something else.
THEOREM LogTheorem == KvdbSpec => []LogSound
<1>1. JournalInv /\ StoreInv => LogSound
    <2> SUFFICES ASSUME JournalInv, Sane, NEW i \in DOMAIN log, ToReplay(log[i])
                 PROVE  Sound(log[i])
        BY DEF StoreInv, LogSound
    <2>1. i \in LogUse
        BY DEF JournalInv, FileTypes, LogUse, ToReplay
    <2>2. Pair(log[i]) \in Refs
        BY <2>1 DEF Refs
    <2> QED BY <2>2, RefSound DEF Sane
<1> QED BY StoreInvariant, <1>1, PTL

\* Table and journal lead to the bytes that were written for them.
THEOREM OffsetsTheorem == KvdbSpec => []OffsetsSound
<1> QED BY RecordsTheorem, LogTheorem, PTL DEF OffsetsSound
------------------------------------------------------------------------------
(***************************************************************************)
(* The put in flight                                                       *)
(***************************************************************************)
\* Nothing that OpInv speaks of changes but pc, and the locals of recover.
LEMMA SameOp ==
    ASSUME UNCHANGED <<data, rec, log, op>>
    PROVE  /\ LogUse' = LogUse /\ Used' = Used
           /\ \A i : (IsOp(log[i])' <=> IsOp(log[i])) /\ (InTable(log[i])' <=> InTable(log[i]))
                     /\ log'[i] = log[i]
           /\ put' = put => (IsOp(put)' <=> IsOp(put))
BY DEF LogUse, Used, IsOp, InTable, Pair

\* recover without a write.
LEMMA ScanOp ==
    ASSUME JournalInv, Sane, OpInv, marks' = {},
           Open \/ RecoverDone \/ RecoverSkips \/ RecoverReads \/ RecoverFinds \/ RecoverPasses
    PROVE  OpInv'
<1>0. /\ Len(log) \in Nat /\ at \in Nat \ {0} /\ Len(log) <= nr /\ nr \in Nat
      /\ \A i \in LogUse : i \in 1 .. Len(log) /\ log[i] \in Entries /\ log[i].status = "USED"
    BY DEF JournalInv, FileTypes, LocalTypes, CountInv, LogUse
<1>1. UNCHANGED <<data, rec, log>>
    BY DEF Open, RecoverDone, RecoverSkips, RecoverReads, RecoverFinds, RecoverPasses, files
<1>2. CASE Open
    <2>1. pc = "down" /\ pc' = "rec_entry" /\ at' = 1 /\ buf' = buf /\ UNCHANGED op
        BY <1>2 DEF Open
    <2>2. ~ToReplay(buf)'
        BY <2>1 DEF Sane, ScanInv, ToReplay, NoBuf
    <2>3. \A i \in LogUse : i >= 1
        BY <1>0
    <2> QED BY <1>1, <2>1, <2>2, <2>3, SameOp DEF OpInv
<1>3. CASE RecoverDone
    <2>1. pc = "rec_entry" /\ pc' = "idle" /\ at > nr /\ op' = NoPut
        BY <1>3 DEF RecoverDone
    <2>2. LogUse = {}
        BY <1>0, <2>1 DEF OpInv
    <2>3. LogUse' = {}
        BY <1>1, <2>2 DEF LogUse
    <2> QED BY <2>1, <2>3 DEF OpInv
<1>4. CASE RecoverSkips
    <2>1. /\ pc = "rec_entry" /\ pc' = "rec_entry" /\ at' = at + 1 /\ UNCHANGED op
          /\ buf' \in Reads(at) /\ ~ToReplay(buf')
        BY <1>4 DEF RecoverSkips
    <2>2. at \notin LogUse
        <3> SUFFICES ASSUME at \in LogUse PROVE FALSE
            OBVIOUS
        <3>1. log[at] \in Entries /\ log[at].status = "USED" /\ log[at].end /\ ~(at > Len(log))
            BY <1>0, <2>1 DEF OpInv
        <3>2. buf' = [log[at] EXCEPT !.end = TRUE]
            BY <2>1, <3>1 DEF Reads
        <3>3. buf'.status = "USED" /\ buf'.end
            BY <3>1, <3>2 DEF Entries
        <3> QED BY <2>1, <3>3 DEF ToReplay
    <2>3. \A i \in LogUse : i >= at + 1
        <3> SUFFICES ASSUME NEW i \in LogUse PROVE i >= at + 1
            OBVIOUS
        <3>1. i >= at /\ i # at
            BY <2>1, <2>2 DEF OpInv
        <3> QED BY <1>0, <3>1
    <2>4. ~ToReplay(buf)'
        BY <2>1 DEF ToReplay
    <2> QED BY <1>1, <2>1, <2>3, <2>4, SameOp DEF OpInv
<1>5. CASE RecoverReads
    <2>1. /\ pc = "rec_entry" /\ pc' = "rec_scan" /\ at' = at /\ UNCHANGED op
          /\ buf' \in Reads(at) /\ ToReplay(buf')
        BY <1>5 DEF RecoverReads
    <2>2. ~(at > Len(log))
        BY <2>1 DEF Reads, OpInv, ToReplay
    <2>3. at \in 1 .. Len(log) /\ log[at] \in Entries
        BY <1>0, <2>2 DEF JournalInv, FileTypes
    <2>4. \E e : buf' = [log[at] EXCEPT !.end = e]
        BY <2>1, <2>2 DEF Reads
    <2>5. log[at].status = "USED" /\ buf'.status = "USED"
        BY <2>1, <2>3, <2>4 DEF Entries, ToReplay
    <2>6. at \in LogUse
        BY <2>3, <2>5 DEF LogUse
    <2>7. LogUse = {at}
        BY <2>1, <2>6 DEF OpInv
    <2> QED BY <1>1, <2>1, <2>5, <2>7, SameOp DEF OpInv
<1>6. CASE RecoverFinds
    <2>1. /\ pc = "rec_scan" /\ slot \in Slots
          /\ rec[slot].koff = buf.koff /\ rec[slot].voff = buf.voff /\ rec[slot].status = "USED"
        BY <1>6 DEF RecoverFinds
    <2>2. slot \in Used /\ Pair(rec[slot]) = Pair(buf)
        BY <2>1 DEF Used, Pair
    <2>3. CASE buf.status = "USED"
        <3>1. at \in LogUse /\ ~InTable(log[at])
            BY <2>1, <2>3 DEF OpInv
        <3>2. Pair(buf) = Pair(log[at])
            BY <1>0, <2>1, <2>3, <3>1 DEF Sane, ScanInv
        <3> QED BY <2>2, <3>1, <3>2 DEF InTable
    <2>4. CASE buf.status # "USED"
        <3>1. PICK j \in Used : j < slot /\ rec[j].koff = buf.koff
            BY <2>1, <2>4 DEF Sane, ScanInv
        <3>2. j = slot
            BY <2>1, <2>2, <3>1 DEF Sane, TableInv
        <3> QED BY <2>1, <3>1, <3>2 DEF Slots
    <2> QED BY <2>3, <2>4
<1>7. CASE RecoverPasses
    <2>1. pc = "rec_scan" /\ pc' = "rec_scan" /\ UNCHANGED <<at, buf, op>>
        BY <1>7 DEF RecoverPasses
    <2> QED BY <1>1, <2>1, SameOp DEF OpInv
<1> QED BY <1>2, <1>3, <1>4, <1>5, <1>6, <1>7

\* A replay and what the loop does after it.
LEMMA ReplayOp ==
    ASSUME JournalInv, Sane, OpInv, RecoverWrites \/ RecoverDisables
    PROVE  OpInv'
<1>0. at \in Nat \ {0} /\ log \in Seq(Entries) /\ Len(log) \in Nat
    BY DEF JournalInv, FileTypes, LocalTypes
<1>1. CASE RecoverWrites
    <2>1. pc = "rec_scan" /\ pc' = "rec_free" /\ UNCHANGED <<at, log>>
        BY <1>1 DEF RecoverWrites, locals
    <2>2. LogUse' = LogUse /\ LogUse \subseteq {at}
        BY <2>1 DEF LogUse, OpInv
    <2> QED BY <2>1, <2>2 DEF OpInv
<1>2. CASE RecoverDisables
    <2>1. /\ pc = "rec_free" /\ pc' = "rec_scan" /\ at' = at
          /\ log' = [log EXCEPT ![at].status = "FREE", ![at].end = TRUE]
          /\ buf' = [buf EXCEPT !.status = "FREE"]
        BY <1>2 DEF RecoverDisables
    <2>2. Len(log') = Len(log) /\ \A i \in 1 .. Len(log) : i # at => log'[i] = log[i]
        BY <1>0, <2>1
    <2>3. at \in 1 .. Len(log) => log'[at].status = "FREE"
        <3> SUFFICES ASSUME at \in 1 .. Len(log) PROVE log'[at].status = "FREE"
            OBVIOUS
        <3>1. log[at] \in Entries /\ DOMAIN log = 1 .. Len(log)
            BY <1>0
        <3> QED BY <1>0, <2>1, <3>1 DEF Entries
    <2>4. LogUse' = {}
        <3>1. \A i \in LogUse : i = at
            BY <2>1 DEF OpInv
        <3> QED BY <2>2, <2>3, <3>1 DEF LogUse
    <2>5. buf'.status = "FREE"
        BY <2>1 DEF JournalInv, LocalTypes
    <2> QED BY <2>1, <2>4, <2>5 DEF OpInv
<1> QED BY <1>1, <1>2

\* Two states with the same journal and the same bytes, and a pair in put to write to it.
LEMMA PutOp ==
    ASSUME JournalInv, Sane, OpInv,
           \/ PutData \/ PutFindsEntry \/ PutHead \/ PutEntry \/ PutEnd \/ PutRecord
           \/ PutDisables \/ (\E k \in Keys, v \in Values : PutCall(k, v))
    PROVE  OpInv'
<1> DEFINE e == put.entry
<1>0. FileTypes /\ LocalTypes /\ CountInv
    BY DEF JournalInv
<1>a. log \in Seq(Entries) /\ Len(log) \in Nat
    BY <1>0 DEF FileTypes
<1>1. ASSUME \E k \in Keys, v \in Values : PutCall(k, v) PROVE OpInv'
    <2>1. pc = "idle" /\ pc' = "data" /\ log' = log
        BY <1>1 DEF PutCall, files
    <2>2. LogUse' = {}
        BY <2>1 DEF OpInv, LogUse
    <2> QED BY <2>1, <2>2 DEF OpInv
<1>2. CASE PutData
    <2>1. pc = "data" /\ pc' = "log_find" /\ UNCHANGED <<log, put, op>> /\ op \in Ops
        BY <1>0, <1>2 DEF PutData, locals, LocalTypes
    <2>2. op # NoPut
        BY <2>1, KvdbAssumption DEF Ops
    <2>3. data'[put.koff].key = op.key /\ data'[put.voff].val = op.val
        BY <1>2, DataWritten
    <2>4. IsOp(put)' /\ LogUse' = {}
        BY <2>1, <2>2, <2>3 DEF IsOp, OpInv, LogUse, Ops
    <2> QED BY <2>1, <2>4 DEF OpInv
<1>3. CASE PutFindsEntry
    <2>1. pc = "log_find" /\ UNCHANGED <<data, rec, log, op>>
          /\ pc' \in {"log_entry", "log_head", "put_stuck"}
        BY <1>3 DEF PutFindsEntry, files
    <2>2. put'.koff = put.koff /\ put'.voff = put.voff
        BY <1>0, <1>3 DEF PutFindsEntry, LocalTypes
    <2>3. IsOp(put)' /\ LogUse' = {}
        BY <2>1, <2>2 DEF IsOp, OpInv, LogUse, Ops
    <2> QED BY <2>1, <2>3 DEF OpInv
<1>4. CASE PutHead
    <2>1. pc = "log_head" /\ pc' = "log_entry" /\ UNCHANGED <<data, rec, log, put, op>>
        BY <1>4 DEF PutHead, locals
    <2> QED BY <2>1, SameOp DEF OpInv
<1>5. CASE PutEntry
    <2>1. pc = "log_entry" /\ pc' = "log_end" /\ UNCHANGED <<data, put, op>>
        BY <1>5 DEF PutEntry, locals
    <2>2. LogUse' = {e}
        <3>1. LogUse = {}
            BY <2>1 DEF OpInv
        <3> QED BY <1>5, <3>1, EntryWritten DEF LogUse
    <2>3. IsOp(put)'
        BY <2>1 DEF IsOp, OpInv, Ops
    <2> QED BY <2>1, <2>2, <2>3 DEF OpInv
<1>6. CASE PutEnd
    <2>1. /\ pc = "log_end" /\ pc' = "record" /\ UNCHANGED <<data, put, op>>
          /\ log' = [log EXCEPT ![e].end = TRUE]
        BY <1>6 DEF PutEnd, locals
    <2>2. LogUse' = LogUse
        <3>1. \A i \in 1 .. Len(log) : log[i] \in Entries
            BY <1>a
        <3>2. Len(log') = Len(log) /\ \A i \in 1 .. Len(log) : log'[i].status = log[i].status
            BY <1>a, <2>1, <3>1 DEF Entries
        <3> QED BY <3>2 DEF LogUse
    <2>3. IsOp(put)'
        BY <2>1 DEF IsOp, OpInv, Ops
    <2> QED BY <2>1, <2>2, <2>3 DEF OpInv
<1>7. CASE PutRecord
    <2>1. pc = "record" /\ pc' = "log_free" /\ UNCHANGED <<log, put>> /\ op' = NoPut
        BY <1>7 DEF PutRecord, locals
    <2>2. LogUse' = LogUse
        BY <2>1 DEF LogUse
    <2> QED BY <2>1, <2>2 DEF OpInv
<1>8. CASE PutDisables
    <2>1. /\ pc = "log_free" /\ pc' = "idle" /\ op' = op
          /\ log' = [log EXCEPT ![e].status = "FREE"]
        BY <1>8 DEF PutDisables
    <2>2. Len(log') = Len(log) /\ \A i \in 1 .. Len(log) : i # e => log'[i] = log[i]
        BY <1>a, <2>1
    <2>3. e \in 1 .. Len(log) /\ log[e] \in Entries
        BY <1>0, <1>a, <2>1 DEF CountInv
    <2>4. log'[e].status = "FREE"
        BY <1>a, <2>1, <2>3 DEF Entries
    <2>5. LogUse' = {}
        <3>1. LogUse = {e}
            BY <2>1 DEF OpInv
        <3> QED BY <2>2, <2>4, <3>1 DEF LogUse
    <2> QED BY <2>1, <2>5 DEF OpInv
<1> QED BY <1>1, <1>2, <1>3, <1>4, <1>5, <1>6, <1>7, <1>8

\* A death without a mark leaves the entry of the put as a whole, or none.
LEMMA EndOp ==
    ASSUME JournalInv, Sane, OpInv, marks' = {}, Close \/ Crash \/ \E k \in Keys : Get(k)
    PROVE  OpInv'
<1>1. ASSUME \E k \in Keys : Get(k) PROVE OpInv'
    <2>1. pc = "idle" /\ pc' = pc /\ UNCHANGED <<data, rec, log, op>>
        BY <1>1 DEF Get, files, locals
    <2> QED BY <2>1, SameOp DEF OpInv
<1>2. ASSUME Close PROVE OpInv'
    <2>1. pc = "idle" /\ pc' = "down" /\ UNCHANGED <<data, rec, log, op>>
        BY <1>2 DEF Close, files
    <2>2. LogUse' = {}
        BY <2>1 DEF OpInv, LogUse
    <2> QED BY <2>1, <2>2 DEF OpInv
<1>3. ASSUME Crash PROVE OpInv'
    <2>1. pc' = "down" /\ UNCHANGED <<data, rec, log, op>> /\ Here \notin Marking
        BY <1>3 DEF Crash, files
    <2>2. pc \notin {"log_free", "rec_free"} /\ (pc = "log_end" => log[put.entry].end)
        BY <2>1 DEF Here, Marking
    <2>3. pc \notin {"ruined", "put_stuck"}
        <3>1. Here \in CrashPoints /\ marks = {}
            BY <1>3 DEF Crash
        <3>2. pc # "put_stuck"
            BY <3>1 DEF JournalInv, SearchEnds
        <3> QED BY <3>1, <3>2, KvdbAssumption DEF Here
    <2>4. \A i \in LogUse : LogUse = {i} /\ log[i].end /\ IsOp(log[i]) /\ ~InTable(log[i])
        <3>1. CASE pc \in {"idle", "data", "log_find", "log_head", "log_entry"}
            BY <3>1 DEF OpInv
        <3>2. CASE pc \in {"log_end", "record"}
            <4> DEFINE e == put.entry
            <4>1. LogUse = {e} /\ log[e].end /\ IsOp(put) /\ Pair(log[e]) = Pair(put)
                BY <2>2, <3>2 DEF Sane, PutInv, OpInv
            <4>2. log[e].koff = put.koff /\ log[e].voff = put.voff
                BY <4>1 DEF Pair
            <4>3. \A j \in Used : rec[j].voff < put.voff /\ rec[j].voff \in Nat
                BY <3>2 DEF Sane, PutInv, JournalInv, FileTypes, Used
            <4>4. ~InTable(log[e])
                <5> SUFFICES ASSUME NEW j \in Used, Pair(log[e]) = Pair(rec[j]) PROVE FALSE
                    BY DEF InTable
                <5>1. rec[j].voff = put.voff
                    BY <4>2 DEF Pair
                <5> QED BY <4>3, <5>1
            <4>5. IsOp(log[e])
                BY <4>1, <4>2 DEF IsOp
            <4> QED BY <4>1, <4>4, <4>5
        <3>3. CASE pc \in {"down", "rec_entry", "rec_scan"}
            BY <3>3 DEF OpInv
        <3> QED BY <2>2, <2>3, <3>1, <3>2, <3>3 DEF JournalInv, LocalTypes
    <2> QED BY <2>1, <2>4, SameOp DEF OpInv
<1> QED BY <1>1, <1>2, <1>3

\* While no process has died at a point of Marking, at most one entry is to be replayed.
LEMMA CleanStep ==
    ASSUME JournalInv, Sane, OpInv, [KvdbNext]_kvVars, pc' # "ruined", marks' = {}
    PROVE  OpInv'
<1>1. CASE UNCHANGED kvVars
    <2>1. UNCHANGED <<pc, data, rec, log, put, at, buf, op>>
        BY <1>1 DEF kvVars, files, locals
    <2>2. ToReplay(buf)' <=> ToReplay(buf)
        BY <2>1 DEF ToReplay
    <2> QED BY <2>1, <2>2, SameOp DEF OpInv
<1>2. CASE KvdbNext
    <2>1. ~RecoverRunsOn
        BY DEF RecoverRunsOn
    <2> QED BY <1>2, <2>1, ScanOp, ReplayOp, PutOp, EndOp DEF KvdbNext, Recovery, PutStep
<1> QED BY <1>1, <1>2

Clean == pc # "ruined" /\ marks = {}

\* No step is left once recover has run over the data area.
LEMMA RuinLasts ==
    ASSUME [KvdbNext]_kvVars, pc' # "ruined"
    PROVE  pc # "ruined"
<1>1. Crash => Here \in CrashPoints
    BY DEF Crash
<1>2. pc = "ruined" => ~Crash
    BY <1>1, KvdbAssumption DEF Here
<1> QED BY <1>2 DEF KvdbNext, Recovery, PutStep, Open, RecoverDone, RecoverSkips,
            RecoverReads, RecoverFinds, RecoverWrites, RecoverDisables, RecoverPasses,
            RecoverRunsOn, PutData, PutFindsEntry, PutHead, PutEntry, PutEnd, PutRecord,
            PutDisables, Close, Get, PutCall, kvVars

\* Once there is a mark there always is one.
LEMMA CleanBefore ==
    ASSUME JournalInv, [KvdbNext]_kvVars, Clean'
    PROVE  Clean
<1>1. marks \subseteq marks'
    BY DEF KvdbNext, Recovery, PutStep, Open, RecoverDone, RecoverSkips, RecoverReads,
           RecoverFinds, RecoverWrites, RecoverDisables, RecoverPasses, RecoverRunsOn,
           PutData, PutFindsEntry, PutHead, PutEntry, PutEnd, PutRecord, PutDisables,
           Close, Crash, Get, PutCall, counts, kvVars
<1>2. pc # "ruined"
    BY RuinLasts DEF Clean
<1> QED BY <1>1, <1>2 DEF Clean

\* There is one put at most that may still have to be done, and it is the last one called,
\* until a process dies at a point of Marking.
THEOREM CleanInvariant == KvdbSpec => [](JournalInv /\ StoreInv /\ CleanInv)
<1>1. KvdbInit => CleanInv
    <2> SUFFICES ASSUME KvdbInit PROVE OpInv
        BY DEF CleanInv
    <2>1. pc = "down" /\ log = << >>
        BY DEF KvdbInit
    <2>2. LogUse = {}
        BY <2>1 DEF LogUse
    <2> QED BY <2>1, <2>2 DEF OpInv
<1>2. JournalInv /\ StoreInv /\ CleanInv /\ [KvdbNext]_kvVars => CleanInv'
    <2> SUFFICES ASSUME JournalInv, StoreInv, CleanInv, [KvdbNext]_kvVars, Clean'
                 PROVE  OpInv'
        BY DEF CleanInv, Clean
    <2>1. Sane /\ OpInv
        BY CleanBefore DEF CleanInv, StoreInv, Clean
    <2> QED BY <2>1, CleanStep DEF Clean
<1> QED BY <1>1, <1>2, StoreInvariant, PTL DEF KvdbSpec

\* With the database open nothing is left to do, if no process has died where a death leaves
\* something behind.
THEOREM SettledTheorem == KvdbSpec => []JournalSettled
<1>1. JournalInv /\ CleanInv => JournalSettled
    <2> SUFFICES ASSUME JournalInv, OpInv, pc = "idle", NEW i \in DOMAIN log, ToReplay(log[i])
                 PROVE  FALSE
        BY DEF CleanInv, JournalSettled
    <2>1. i \in LogUse
        BY DEF JournalInv, FileTypes, LogUse, ToReplay
    <2> QED BY <2>1 DEF OpInv
<1> QED BY CleanInvariant, <1>1, PTL
------------------------------------------------------------------------------
(***************************************************************************)
(* The database implements KvStore.                                        *)
(***************************************************************************)
\* A pair in use: where it leads, and what kvdb_get makes of it.
LEMMA RecordSeen ==
    ASSUME JournalInv, Sane, NEW j \in Used
    PROVE  /\ KeyAt(j) = data[rec[j].koff].key
           /\ rec[j].koff \in Offsets /\ rec[j].voff \in Offsets /\ rec[j].koff < rec[j].voff
<1>1. Pair(rec[j]) \in Refs
    BY DEF Refs
<1>2. /\ rec[j].koff \in Nat \ {0} /\ rec[j].voff \in Nat /\ rec[j].koff < rec[j].voff
      /\ rec[j].voff <= 2 * puts /\ data[rec[j].koff].val = NoValue
    BY <1>1 DEF Sane, RefsGood, Pair
<1>3. puts \in Nat /\ puts <= MaxPuts /\ MaxPuts \in Nat
    BY KvdbAssumption DEF JournalInv, LocalTypes
<1> QED BY <1>2, <1>3 DEF KeyAt, Offsets, DataLo

LEMMA TableUsedAfter == TableInv' => InUse' = Used'
BY KvdbAssumption DEF TableInv, InUse, Used, Slots

LEMMA LeastWithKey ==
    ASSUME JournalInv, Sane, NEW k, WithKey(k) # {}
    PROVE  Min(WithKey(k)) \in WithKey(k)
<1>1. WithKey(k) \subseteq Nat
    BY DEF WithKey, InUse, Slots
<1>2. \E i \in WithKey(k) : \A j \in WithKey(k) : i <= j
    BY <1>1, LeastNumber
<1> QED BY <1>2 DEF Min

\* A step that leaves every record in use and its bytes leaves what everybody sees.
LEMMA SeenSame ==
    ASSUME JournalInv, Sane, Sane', Used' = Used,
           \A j \in Used : rec'[j] = rec[j] /\ data'[rec[j].koff] = data[rec[j].koff]
                           /\ data'[rec[j].voff] = data[rec[j].voff],
           NEW k
    PROVE  Visible(k)' = Visible(k)
<1>1. InUse = Used /\ InUse' = Used'
    BY TableUsed, TableUsedAfter DEF Sane
<1>2. \A j \in Used : KeyAt(j)' = KeyAt(j)
    BY DEF KeyAt
<1>3. WithKey(k)' = WithKey(k)
    BY <1>1, <1>2 DEF WithKey
<1>4. CASE WithKey(k) = {}
    BY <1>3, <1>4 DEF Visible
<1>5. CASE WithKey(k) # {}
    <2> DEFINE m == Min(WithKey(k))
    <2>1. m \in Used
        BY <1>1, <1>5, LeastWithKey DEF WithKey
    <2>2. data'[rec'[m].voff] = data[rec[m].voff]
        BY <2>1
    <2> QED BY <1>3, <1>5, <2>2 DEF Visible
<1> QED BY <1>4, <1>5

\* Where a record is written, by a put or by a replay, the key gets its value.
LEMMA TakesEffect ==
    ASSUME JournalInv, JournalInv', Sane, Sane', data' = data, NEW n \in Slots, NEW p,
           p \in Refs, Used' = Used \cup {n}, Pair(rec'[n]) = p,
           \A j \in Used : j # n => rec'[j] = rec[j] /\ rec[j].koff # p[1],
           n \in Used => rec[n].koff = p[1]
    PROVE  \A k : Visible(k)' = IF k = data[p[1]].key THEN data[p[2]].val ELSE Visible(k)
<1>1. InUse = Used /\ InUse' = Used'
    BY TableUsed, TableUsedAfter DEF Sane
<1>2. \A j \in Used' : KeyAt(j)' = data[rec'[j].koff].key
    BY RecordSeen DEF KeyAt, Sane, RefsGood, Refs, Pair
<1>3. \A j \in Used : KeyAt(j) = data[rec[j].koff].key
    BY RecordSeen
<1>4. rec'[n].koff = p[1] /\ rec'[n].voff = p[2]
    BY DEF Pair
<1>5. \A j \in Used : j # n => KeyAt(j)' = KeyAt(j) /\ KeyAt(j) # data[p[1]].key
    <2> SUFFICES ASSUME NEW j \in Used, j # n
                 PROVE  KeyAt(j)' = KeyAt(j) /\ KeyAt(j) # data[p[1]].key
        OBVIOUS
    <2>1. KeyAt(j)' = KeyAt(j)
        BY <1>2, <1>3
    <2>2. Pair(rec[j]) \in Refs /\ Pair(rec[j])[1] = rec[j].koff
        BY DEF Refs, Pair
    <2>3. data[Pair(rec[j])[1]].key # data[p[1]].key
        BY <2>2 DEF Sane, RefsGood
    <2> QED BY <1>3, <2>1, <2>2, <2>3
<1> SUFFICES ASSUME NEW k
             PROVE  Visible(k)' = IF k = data[p[1]].key THEN data[p[2]].val ELSE Visible(k)
    OBVIOUS
<1>6. CASE k = data[p[1]].key
    <2>1. WithKey(k)' = {n}
        BY <1>1, <1>2, <1>4, <1>5, <1>6 DEF WithKey
    <2>2. Min({n}) = n
        <3>1. \E x \in {n} : \A y \in {n} : x <= y
            BY DEF Slots
        <3> QED BY <3>1 DEF Min
    <2> QED BY <1>4, <1>6, <2>1, <2>2 DEF Visible
<1>7. CASE k # data[p[1]].key
    <2>1. n \in Used => KeyAt(n) # k
        BY <1>3, <1>7
    <2>2. KeyAt(n)' # k
        BY <1>2, <1>4, <1>7
    <2>3. WithKey(k)' = WithKey(k) /\ n \notin WithKey(k)
        BY <1>1, <1>5, <2>1, <2>2 DEF WithKey
    <2>4. CASE WithKey(k) = {}
        BY <1>7, <2>3, <2>4 DEF Visible
    <2>5. CASE WithKey(k) # {}
        <3> DEFINE m == Min(WithKey(k))
        <3>1. m \in Used /\ m # n
            BY <1>1, <2>3, <2>5, LeastWithKey DEF WithKey
        <3>2. data'[rec'[m].voff] = data[rec[m].voff]
            BY <3>1
        <3> QED BY <1>7, <2>3, <2>5, <3>2 DEF Visible
    <2> QED BY <2>4, <2>5
<1> QED BY <1>6, <1>7

\* What recover and kvdb_put write before the record changes nothing that kvdb_get finds.
LEMMA NothingSeen ==
    ASSUME JournalInv, Sane, Sane', rec' = rec, UNCHANGED data \/ PutData
    PROVE  \A k : Visible(k)' = Visible(k)
<1>1. Used' = Used
    BY DEF Used, Slots
<1>2. ASSUME NEW j \in Used
      PROVE  data'[rec[j].koff] = data[rec[j].koff] /\ data'[rec[j].voff] = data[rec[j].voff]
    <2>1. CASE PutData
        <3>1. rec[j].voff < put.base /\ put.base \in Nat
            BY <2>1, DataWritten
        <3>2. rec[j].koff \in Offsets /\ rec[j].voff \in Offsets /\ rec[j].koff < rec[j].voff
            BY RecordSeen
        <3>3. rec[j].koff < put.base
            BY <3>1, <3>2 DEF Offsets
        <3> QED BY <2>1, <3>1, <3>2, <3>3, DataWritten
    <2> QED BY <2>1
<1> QED BY <1>1, <1>2, SeenSame

LEMMA RecordTakesEffect ==
    ASSUME JournalInv, JournalInv', Sane, Sane', OpInv, PutRecord
    PROVE  op # NoPut /\ op' = NoPut /\ op \in Ops
           /\ \A k : Visible(k)' = IF k = op.key THEN op.val ELSE Visible(k)
<1> DEFINE n == put.recno
           e == put.entry
           p == Pair(log[e])
<1>1. pc = "record" /\ data' = data /\ op' = NoPut
      /\ rec' = [rec EXCEPT ![n] = [status |-> "USED", koff |-> put.koff, voff |-> put.voff]]
    BY DEF PutRecord
<1>2. /\ n \in Slots /\ e \in LogUse /\ p = Pair(put)
      /\ \A j \in Used : rec[j].koff = put.koff <=> j = n
    BY <1>1 DEF Sane, PutInv
<1>3. /\ rec'[n] = [status |-> "USED", koff |-> put.koff, voff |-> put.voff]
      /\ \A j \in Slots : j # n => rec'[j] = rec[j]
    BY <1>1, <1>2 DEF JournalInv, FileTypes
<1>4. Used' = Used \cup {n} /\ Used \subseteq Slots
    BY <1>2, <1>3 DEF Used
<1>5. p \in Refs
    BY <1>2 DEF Refs
<1>6. p[1] = put.koff /\ p[2] = put.voff
    BY <1>2 DEF Pair
<1>7. Pair(rec'[n]) = p
    BY <1>2, <1>3 DEF Pair
<1>8. op # NoPut /\ op \in Ops /\ data[put.koff].key = op.key /\ data[put.voff].val = op.val
    BY <1>1 DEF OpInv, IsOp
<1> HIDE DEF n, p
<1>9. \A k : Visible(k)' = IF k = data[p[1]].key THEN data[p[2]].val ELSE Visible(k)
    BY <1>1, <1>2, <1>3, <1>4, <1>5, <1>6, <1>7, TakesEffect
<1> QED BY <1>1, <1>6, <1>8, <1>9

\* The first record recover writes is that of the entry; the rest is not in use.
LEMMA ReplayTakesEffect ==
    ASSUME JournalInv, JournalInv', Sane, Sane', OpInv, RecoverWrites
    PROVE  \/ op' = op /\ \A k : Visible(k)' = Visible(k)
           \/ op # NoPut /\ op' = NoPut /\ op \in Ops
              /\ \A k : Visible(k)' = IF k = op.key THEN op.val ELSE Visible(k)
<1> DEFINE p == Pair(log[at])
<1>1. /\ pc = "rec_scan" /\ data' = data /\ slot \in Slots
      /\ op' = IF buf.status = "USED" THEN NoPut ELSE op
      /\ rec' = [rec EXCEPT ![slot] = [status |-> buf.status, koff |-> buf.koff,
                                       voff |-> buf.voff]]
      /\ slot \notin Used \/ rec[slot].koff = buf.koff
    BY DEF RecoverWrites, Takes, Used
<1>2. /\ rec'[slot] = [status |-> buf.status, koff |-> buf.koff, voff |-> buf.voff]
      /\ \A j \in Slots : j # slot => rec'[j] = rec[j]
    BY <1>1 DEF JournalInv, FileTypes
<1>3. Used \subseteq Slots
    BY DEF Used
<1>4. CASE buf.status # "USED"
    <2>1. PICK j \in Used : j < slot /\ rec[j].koff = buf.koff
        BY <1>1, <1>4 DEF Sane, ScanInv
    <2>2. slot \notin Used
        BY <1>1, <2>1 DEF Sane, TableInv, Slots
    <2>3. Used' = Used /\ \A i \in Used : rec'[i] = rec[i]
        <3>1. \A i \in Used : rec'[i] = rec[i] /\ i # slot
            BY <1>2, <1>3, <2>2
        <3>2. \A i \in Slots : rec'[i].status = "USED" <=> rec[i].status = "USED"
            BY <1>1, <1>2, <1>4, <2>2 DEF Used
        <3> QED BY <3>1, <3>2 DEF Used, Slots
    <2>4. \A k : Visible(k)' = Visible(k)
        BY <1>1, <2>3, SeenSame
    <2> QED BY <1>1, <1>4, <2>4
<1>5. CASE buf.status = "USED"
    <2>1. LogUse = {at}
        BY <1>1, <1>5 DEF OpInv
    <2>2. Pair(buf) = p /\ at \in LogUse
        <3>1. ~(at > Len(log))
            <4>1. at \in 1 .. Len(log)
                BY <2>1 DEF LogUse
            <4>2. Len(log) \in Nat
                BY DEF JournalInv, FileTypes
            <4> QED BY <4>1, <4>2
        <3> QED BY <1>1, <1>5, <2>1, <3>1 DEF Sane, ScanInv
    <2>3. p[1] = buf.koff /\ p[2] = buf.voff /\ p[1] = log[at].koff /\ p[2] = log[at].voff
        BY <2>2 DEF Pair
    <2>4. p \in Refs
        BY <2>2 DEF Refs
    <2>5. Used' = Used \cup {slot}
        BY <1>1, <1>2, <1>5, <1>3 DEF Used
    <2>6. Pair(rec'[slot]) = p
        BY <1>2, <2>2 DEF Pair
    <2>7. \A j \in Used : j # slot => rec[j].koff # buf.koff
        <3> SUFFICES ASSUME NEW j \in Used, j # slot, rec[j].koff = buf.koff PROVE FALSE
            OBVIOUS
        <3>1. \A m \in Slots : m < slot => rec[m].koff # buf.koff
            BY <1>1, <1>5 DEF Sane, ScanInv
        <3>2. slot < j
            BY <1>1, <1>3, <3>1 DEF Slots
        <3>3. slot \in Used
            BY <1>1, <1>3, <3>2 DEF Sane, TableInv
        <3> QED BY <1>1, <3>3 DEF Sane, TableInv
    <2>8. IsOp(log[at])
        BY <1>1, <2>1 DEF OpInv
    <2>9. op # NoPut /\ op \in Ops /\ data[p[1]].key = op.key /\ data[p[2]].val = op.val
        BY <2>3, <2>8 DEF IsOp
    <2> HIDE DEF p
    <2>10. \A k : Visible(k)' = IF k = data[p[1]].key THEN data[p[2]].val ELSE Visible(k)
        BY <1>1, <1>2, <1>3, <2>3, <2>4, <2>5, <2>6, <2>7, TakesEffect
    <2> QED BY <1>1, <1>5, <2>9, <2>10
<1> QED BY <1>4, <1>5

\* The variables of KvStore, as the database has them.
LEMMA StoreStutters ==
    ASSUME \A k : Visible(k)' = Visible(k), UNCHANGED <<op, got>>,
           pc' \in PutPoints <=> pc \in PutPoints
    PROVE  UNCHANGED Store!vars
BY DEF Store!vars

LEMMA SameFilesSeen ==
    ASSUME UNCHANGED <<data, rec>>
    PROVE  \A k : Visible(k)' = Visible(k)
BY DEF Visible, WithKey, InUse, KeyAt

LEMMA StoreTakesEffect ==
    ASSUME op # NoPut, op' = NoPut, got' = got, pc' \in PutPoints <=> pc \in PutPoints,
           op \in Ops, \A k : Visible(k)' = IF k = op.key THEN op.val ELSE Visible(k)
    PROVE  Store!Next
<1>1. op.key \in Keys
    BY DEF Ops
<1>2. [k \in Keys |-> Visible(k)]' = [[k \in Keys |-> Visible(k)] EXCEPT ![op.key] = op.val]
    BY <1>1
<1>3. Store!TakeEffect
    BY <1>2 DEF Store!TakeEffect
<1> QED BY <1>3 DEF Store!Next

LEMMA RecoveryRefines ==
    ASSUME JournalInv, JournalInv', Sane, StoreInv', OpInv, Recovery, pc' # "ruined", marks = {}
    PROVE  Store!Next \/ UNCHANGED Store!vars
<1> USE DEF PutPoints
<1>1. CASE Open \/ RecoverSkips \/ RecoverReads \/ RecoverFinds \/ RecoverDisables \/ RecoverPasses
    <2>1. /\ UNCHANGED <<data, rec, op, got>> /\ ~(pc \in PutPoints) /\ ~(pc' \in PutPoints)
        BY <1>1 DEF Open, RecoverSkips, RecoverReads, RecoverFinds, RecoverDisables,
                    RecoverPasses, files
    <2> QED BY <2>1, SameFilesSeen, StoreStutters
<1>2. CASE RecoverDone
    <2>1. /\ UNCHANGED <<data, rec, got>> /\ ~(pc \in PutPoints) /\ ~(pc' \in PutPoints)
          /\ op' = NoPut
        BY <1>2 DEF RecoverDone, files
    <2>2. \A k : Visible(k)' = Visible(k)
        BY <2>1, SameFilesSeen
    <2>3. CASE op = NoPut
        BY <2>1, <2>2, <2>3, StoreStutters
    <2>4. CASE op # NoPut
        <3>1. [k \in Keys |-> Visible(k)]' = [k \in Keys |-> Visible(k)]
            BY <2>2
        <3>2. Store!Recover
            BY <2>1, <2>4, <3>1 DEF Store!Recover
        <3> QED BY <3>2 DEF Store!Next
    <2> QED BY <2>3, <2>4
<1>3. CASE RecoverWrites
    <2>1. got' = got /\ ~(pc \in PutPoints) /\ ~(pc' \in PutPoints) /\ marks' = marks
        BY <1>3 DEF RecoverWrites, counts
    <2>2. Sane'
        BY <2>1 DEF StoreInv
    <2>3. CASE op' = op /\ \A k : Visible(k)' = Visible(k)
        BY <2>1, <2>3, StoreStutters
    <2>4. CASE op # NoPut /\ op' = NoPut /\ op \in Ops
               /\ \A k : Visible(k)' = IF k = op.key THEN op.val ELSE Visible(k)
        BY <2>1, <2>4, StoreTakesEffect
    <2> QED BY <1>3, <2>2, <2>3, <2>4, ReplayTakesEffect
<1>4. ~RecoverRunsOn
    BY DEF RecoverRunsOn
<1> QED BY <1>1, <1>2, <1>3, <1>4 DEF Recovery

LEMMA PutRefines ==
    ASSUME JournalInv, JournalInv', Sane, StoreInv', OpInv, PutStep, marks = {}
    PROVE  Store!Next \/ UNCHANGED Store!vars
<1> USE DEF PutPoints
<1>1. CASE PutFindsEntry \/ PutHead \/ PutEntry \/ PutEnd
    <2>1. UNCHANGED <<data, rec, op, got>> /\ pc \in PutPoints /\ pc' \in PutPoints
        BY <1>1 DEF PutFindsEntry, PutHead, PutEntry, PutEnd, files
    <2> QED BY <2>1, SameFilesSeen, StoreStutters
<1>2. CASE PutData
    <2>1. UNCHANGED <<rec, op, got, marks>> /\ pc \in PutPoints /\ pc' = "log_find"
        BY <1>2 DEF PutData, counts
    <2>2. \A k : Visible(k)' = Visible(k)
        BY <1>2, <2>1, NothingSeen DEF StoreInv
    <2> QED BY <2>1, <2>2, StoreStutters
<1>3. CASE PutRecord
    <2>1. UNCHANGED <<got, marks>> /\ pc \in PutPoints /\ pc' = "log_free"
        BY <1>3 DEF PutRecord, counts
    <2>2. op # NoPut /\ op' = NoPut /\ op \in Ops
          /\ \A k : Visible(k)' = IF k = op.key THEN op.val ELSE Visible(k)
        BY <1>3, <2>1, RecordTakesEffect DEF StoreInv
    <2> QED BY <2>1, <2>2, StoreTakesEffect
<1>4. CASE PutDisables
    <2>1. UNCHANGED <<data, rec, op, got>> /\ pc = "log_free" /\ pc' = "idle"
        BY <1>4 DEF PutDisables
    <2>2. [k \in Keys |-> Visible(k)]' = [k \in Keys |-> Visible(k)]
        BY <2>1, SameFilesSeen
    <2>3. op = NoPut
        BY <2>1 DEF OpInv
    <2>4. Store!Return
        BY <2>1, <2>2, <2>3 DEF Store!Return
    <2> QED BY <2>4 DEF Store!Next
<1> QED BY <1>1, <1>2, <1>3, <1>4 DEF PutStep

LEMMA RestRefines ==
    ASSUME JournalInv, OpInv,
           Close \/ Crash \/ \E k \in Keys : Get(k) \/ \E v \in Values : PutCall(k, v)
    PROVE  Store!Next \/ UNCHANGED Store!vars
<1> USE DEF PutPoints
<1>0. UNCHANGED <<data, rec>>
    BY DEF Close, Crash, Get, PutCall, files
<1>1. /\ \A k : Visible(k)' = Visible(k)
      /\ [k \in Keys |-> Visible(k)]' = [k \in Keys |-> Visible(k)]
    BY <1>0, SameFilesSeen
<1>2. ASSUME Close \/ (Crash /\ ~(pc \in PutPoints)) PROVE UNCHANGED Store!vars
    <2>1. UNCHANGED <<op, got>> /\ ~(pc \in PutPoints) /\ ~(pc' \in PutPoints)
        BY <1>2 DEF Close, Crash
    <2> QED BY <1>1, <2>1, StoreStutters
<1>3. ASSUME Crash, pc \in PutPoints PROVE Store!Next
    <2>1. UNCHANGED <<op, got>> /\ ~(pc' \in PutPoints)
        BY <1>3 DEF Crash
    <2>2. Store!Crash
        BY <1>1, <1>3, <2>1 DEF Store!Crash
    <2> QED BY <2>2 DEF Store!Next
<1>4. ASSUME NEW k \in Keys, Get(k) PROVE Store!Next
    <2>1. ~(pc \in PutPoints) /\ pc' = pc /\ op' = op /\ got' = [key |-> k, val |-> Visible(k)]
        BY <1>4 DEF Get
    <2>2. Store!Get(k)
        BY <1>1, <2>1 DEF Store!Get
    <2> QED BY <2>2 DEF Store!Next
<1>5. ASSUME NEW k \in Keys, NEW v \in Values, PutCall(k, v) PROVE Store!Next
    <2>1. /\ ~(pc \in PutPoints) /\ pc' \in PutPoints /\ op' = [key |-> k, val |-> v]
          /\ got' = got /\ pc = "idle"
        BY <1>5 DEF PutCall
    <2>2. op = NoPut
        BY <2>1 DEF OpInv
    <2>3. Store!Call(k, v)
        BY <1>1, <2>1, <2>2 DEF Store!Call
    <2> QED BY <2>3 DEF Store!Next
<1> QED BY <1>2, <1>3, <1>4, <1>5

\* kvdb_put takes effect at once or not at all, at the latest when recover is done, and
\* kvdb_get returns what was put last: until a process dies at a point of Marking, or
\* recover runs over the data area.
THEOREM KvStoreTheorem == KvdbSpec => KvStoreUntilRuin
<1> DEFINE Inv == JournalInv /\ StoreInv /\ CleanInv
<1>1. KvdbInit => Store!Init
    <2> SUFFICES ASSUME KvdbInit PROVE Store!Init
        OBVIOUS
    <2>1. 0 \in Slots /\ rec[0].status # "USED" /\ pc = "down" /\ op = NoPut /\ got = NoPut
        BY KvdbAssumption DEF KvdbInit, Slots, Blank
    <2>2. InUse = {}
        <3>1. \A j \in Slots : 0 \in 0 .. j
            BY DEF Slots
        <3> QED BY <2>1, <3>1 DEF InUse
    <2>3. \A k : Visible(k) = NoValue
        BY <2>2 DEF Visible, WithKey
    <2>4. ~(pc \in PutPoints)
        BY <2>1 DEF PutPoints
    <2> QED BY <2>1, <2>3, <2>4 DEF Store!Init
<1>2. Inv /\ Inv' /\ [KvdbNext]_kvVars
        => [Store!Next \/ pc' = "ruined" \/ marks # {}]_Store!vars
    <2> SUFFICES ASSUME Inv, Inv', [KvdbNext]_kvVars, pc' # "ruined", marks = {}
                 PROVE  Store!Next \/ UNCHANGED Store!vars
        OBVIOUS
    <2>1. pc # "ruined"
        BY RuinLasts
    <2>2. Sane /\ OpInv
        BY <2>1 DEF StoreInv, CleanInv
    <2>3. CASE UNCHANGED kvVars
        <3>1. UNCHANGED <<pc, data, rec, op, got>>
            BY <2>3 DEF kvVars, files
        <3> QED BY <3>1, SameFilesSeen, StoreStutters
    <2>4. CASE KvdbNext
        BY <2>2, <2>4, RecoveryRefines, PutRefines, RestRefines DEF KvdbNext
    <2> QED BY <2>3, <2>4
<1>3. KvdbSpec => []Inv
    BY CleanInvariant
<1> QED BY <1>1, <1>2, <1>3, PTL DEF KvdbSpec, KvStoreUntilRuin
=============================================================================
