-------------------------------- MODULE Kvdb --------------------------------
(***************************************************************************)
(* The key-value store of libkvdb/kvdb.c: a data file with a table of      *)
(* records and the bytes of keys and values, and a journal of offsets.     *)
(* One process at a time works on the files (every operation holds the     *)
(* file locks from its first access to its last).  It can die after every  *)
(* write, where the code has may_crash(), and then is started again.  What *)
(* it has written stays: the files outlive a process.                      *)
(*                                                                         *)
(*   down        no process                                                *)
(*   rec_entry   recover, about to read journal entry at                   *)
(*   rec_scan    recover, looking at record slot                           *)
(*   rec_free    recover, record written, entry to be disabled             *)
(*   idle        the database is open                                      *)
(*   data        kvdb_put, about to write key and value                    *)
(*   log_find    kvdb_put, looking for a journal entry to use              *)
(*   log_head    kvdb_put, about to count a new entry                      *)
(*   log_entry   kvdb_put, about to write all of the entry but its end     *)
(*   log_end     kvdb_put, about to write the end character                *)
(*   record      kvdb_put, about to write the record                       *)
(*   log_free    kvdb_put, about to disable the entry                      *)
(*   put_stuck   kvdb_put, searching behind the end of the journal for ever*)
(*   ruined      recover, in its loop behind the table, writing on the data*)
(*                                                                         *)
(* Keys and values are one unit long, and the data area starts at DataLo.  *)
(* A read at the end of a file leaves its buffer as it was, and the code   *)
(* looks at the buffer.  On the first reads of an empty file the buffer is *)
(* taken not to look like a record or an entry in use.                     *)
(*                                                                         *)
(* Offsets are kept as they are.  Int2Str, modelled apart in KvInt, writes *)
(* them so that they are read back below 16 MiB: everything said here is   *)
(* of data files below that size.                                          *)
(***************************************************************************)
EXTENDS Integers, Sequences, FiniteSets, SequencesExt, FiniteSetsExt

CONSTANTS
    Keys, Values,
    NoValue,        \* NULL returned by kvdb_get
    NoPut,          \* no put in progress
    CrashPoints,    \* the program points at which the process may die; "log_short"
                    \* is log_end of an entry that is the last of the file
    NRecords,       \* bound: slots in the table of records
    MaxPuts,        \* bound: calls of kvdb_put
    MaxCrashes      \* bound: deaths of the process

ASSUME KvdbAssumption ==
    /\ NRecords \in Nat \ {0} /\ MaxPuts \in Nat /\ MaxCrashes \in Nat
    /\ NoValue \notin Keys \cup Values /\ NoPut \notin [key : Keys, val : Values]
    /\ "ruined" \notin CrashPoints    \* nothing is asked of the files after that

VARIABLES
    pc,         \* see above
    data,       \* data[o]: the key or the value at offset o of the data file
    rec,        \* rec[j]: the record at REC_MSG(j)
    log,        \* the entries of the journal; one without its end is short
    nr,         \* nr_log in the head of the journal
    put,        \* the locals of kvdb_put
    at,         \* recover: the entry i
    slot,       \* recover: the record j
    buf,        \* recover: the entry read (buf1)
    op,         \* the put that was called and whose record is not written yet
    got,        \* the last get and what it returned
    puts, crashes,  \* how many there were
    marks       \* history: the points of Marking at which a process has died, and
                \* "free_slot" if recover has taken a slot not in use for a record

files == <<data, rec, log, nr>>
locals == <<put, at, slot, buf>>
counts == <<puts, crashes, marks>>
kvVars == <<pc, files, locals, op, got, counts>>

DataLo == 1
Offsets == DataLo .. DataLo + 2 * MaxPuts
Slots == 0 .. NRecords - 1
Statuses == {"USED", "FREE", "none"}    \* none: never written, zero bytes
Blank == [status |-> "none", koff |-> 0, voff |-> 0]
NoCell == [key |-> NoValue, val |-> NoValue]
NoBuf == [status |-> "none", koff |-> 0, voff |-> 0, end |-> FALSE]
NoLocals == [koff |-> 0, voff |-> 0, recno |-> 0, entry |-> 0, base |-> 0]

\* The loops over the table stop at the first slot that is not USED.
InUse == {j \in Slots : \A i \in 0 .. j : rec[i].status = "USED"}
KeyAt(j) ==
    LET cell == data[rec[j].koff]
    IN  IF cell.val = NoValue THEN cell.key ELSE NoValue
WithKey(k) == {j \in InUse : KeyAt(j) = k}

\* The value kvdb_get finds.
Visible(k) ==
    IF WithKey(k) = {} THEN NoValue ELSE data[rec[Min(WithKey(k))].voff].val
------------------------------------------------------------------------------
KvdbInit ==
    /\ pc = "down"
    /\ data = [o \in Offsets |-> NoCell]
    /\ rec = [j \in Slots |-> Blank]
    /\ log = << >>
    /\ nr = 0
    /\ put = NoLocals /\ at = 1 /\ slot = 0 /\ buf = NoBuf
    /\ op = NoPut /\ got = NoPut
    /\ puts = 0 /\ crashes = 0 /\ marks = {}
------------------------------------------------------------------------------
(***************************************************************************)
(* kvdb_open: recover.                                                     *)
(***************************************************************************)
Open ==
    /\ pc = "down"
    /\ pc' = "rec_entry" /\ at' = 1
    /\ UNCHANGED <<files, put, slot, buf, op, got, counts>>

RecoverDone ==
    /\ pc = "rec_entry" /\ at > nr
    /\ pc' = "idle"
    /\ op' = NoPut
    /\ UNCHANGED <<files, locals, got, counts>>

\* What buf1 holds after the read of entry i.  The read of a short entry leaves the
\* end character that was there, the read behind the end of the file everything; at
\* the first entry that character may be anything.
Reads(i) ==
    IF i > Len(log) THEN {buf}
    ELSE {[log[i] EXCEPT !.end = e] :
             e \in IF log[i].end THEN {TRUE} ELSE IF i = 1 THEN BOOLEAN ELSE {buf.end}}

ToReplay(b) == b.status = "USED" /\ b.end

RecoverSkips ==
    /\ pc = "rec_entry" /\ at <= nr
    /\ buf' \in {b \in Reads(at) : ~ToReplay(b)}
    /\ at' = at + 1
    /\ UNCHANGED <<pc, files, put, slot, op, got, counts>>

RecoverReads ==
    /\ pc = "rec_entry" /\ at <= nr
    /\ buf' \in {b \in Reads(at) : ToReplay(b)}
    /\ slot' = 0
    /\ pc' = "rec_scan"
    /\ UNCHANGED <<files, put, at, op, got, counts>>

\* The record is there already: the entry is left as it is.
RecoverFinds ==
    /\ pc = "rec_scan" /\ slot \in Slots
    /\ rec[slot].koff = buf.koff /\ rec[slot].voff = buf.voff
    /\ at' = at + 1
    /\ pc' = "rec_entry"
    /\ marks' = IF rec[slot].status = "USED" THEN marks ELSE marks \cup {"free_slot"}
    /\ UNCHANGED <<files, put, slot, buf, op, got, puts, crashes>>

Takes(j) == rec[j].status # "USED" \/ rec[j].koff = buf.koff

RecoverWrites ==
    /\ pc = "rec_scan" /\ slot \in Slots
    /\ ~(rec[slot].koff = buf.koff /\ rec[slot].voff = buf.voff)
    /\ Takes(slot)
    /\ rec' = [rec EXCEPT ![slot] = [status |-> buf.status, koff |-> buf.koff,
                                     voff |-> buf.voff]]
    /\ op' = IF buf.status = "USED" THEN NoPut ELSE op
    /\ pc' = "rec_free"
    /\ UNCHANGED <<data, log, nr, locals, got, counts>>

\* The entry is disabled, in the journal and in buf1, and the loop goes on.
RecoverDisables ==
    /\ pc = "rec_free"
    /\ log' = [log EXCEPT ![at].status = "FREE", ![at].end = TRUE]
    /\ buf' = [buf EXCEPT !.status = "FREE"]
    /\ slot' = slot + 1
    /\ pc' = "rec_scan"
    /\ UNCHANGED <<data, rec, nr, put, at, op, got, counts>>

RecoverPasses ==
    /\ pc = "rec_scan" /\ slot \in Slots
    /\ ~(rec[slot].koff = buf.koff /\ rec[slot].voff = buf.voff)
    /\ ~Takes(slot)
    /\ slot' = slot + 1
    /\ UNCHANGED <<pc, files, put, at, buf, op, got, counts>>

\* Nothing ends the loop: it writes what is left in buf1 over the free slots, the
\* data area and on behind the end of the file.
RecoverRunsOn ==
    /\ pc = "rec_scan" /\ slot \notin Slots
    /\ pc' = "ruined"
    /\ data' = [o \in Offsets |-> NoCell]
    /\ UNCHANGED <<rec, log, nr, locals, op, got, counts>>
------------------------------------------------------------------------------
(***************************************************************************)
(* kvdb_put and kvdb_get.                                                  *)
(***************************************************************************)
\* Faulty variant: offset is the end of the last record's value, not the largest.
PutCallLast(k, v) ==
    /\ pc = "idle" /\ puts < MaxPuts
    /\ LET base == IF InUse = {} THEN DataLo ELSE rec[Max(InUse)].voff + 1
           known == WithKey(k) # {}
           j == IF known THEN Min(WithKey(k))
                ELSE Min({i \in Slots : rec[i].status # "USED"})
       IN  /\ known \/ InUse # Slots
           /\ put' = [koff |-> IF known THEN rec[j].koff ELSE base,
                      voff |-> IF known THEN base ELSE base + 1,
                      recno |-> j, entry |-> 0, base |-> base]
    /\ op' = [key |-> k, val |-> v]
    /\ puts' = puts + 1
    /\ pc' = "data"
    /\ UNCHANGED <<files, at, slot, buf, got, crashes, marks>>

\* Faulty variant: the value of a known key is overwritten where it is.
PutCallInPlace(k, v) ==
    /\ pc = "idle" /\ puts < MaxPuts
    /\ LET base == Max({rec[j].voff + 1 : j \in InUse} \cup {DataLo})
           known == WithKey(k) # {}
           j == IF known THEN Min(WithKey(k))
                ELSE Min({i \in Slots : rec[i].status # "USED"})
       IN  /\ known \/ InUse # Slots
           /\ put' = [koff |-> IF known THEN rec[j].koff ELSE base,
                      voff |-> IF known THEN rec[j].voff ELSE base + 1,
                      recno |-> j, entry |-> 0, base |-> base]
    /\ op' = [key |-> k, val |-> v]
    /\ puts' = puts + 1
    /\ pc' = "data"
    /\ UNCHANGED <<files, at, slot, buf, got, crashes, marks>>

\* The loop over the records: base is the end of the last value.
PutCall(k, v) ==
    /\ pc = "idle" /\ puts < MaxPuts
    /\ LET ends == {rec[j].voff + 1 : j \in InUse}
           base == Max(ends \cup {DataLo})
           known == WithKey(k) # {}
           j == IF known THEN Min(WithKey(k))
                ELSE Min({i \in Slots : rec[i].status # "USED"})
       IN  /\ known \/ InUse # Slots
           /\ put' = [koff |-> IF known THEN rec[j].koff ELSE base,
                      voff |-> IF known THEN base ELSE base + 1,
                      recno |-> j, entry |-> 0, base |-> base]
    /\ op' = [key |-> k, val |-> v]
    /\ puts' = puts + 1
    /\ pc' = "data"
    /\ UNCHANGED <<files, at, slot, buf, got, crashes, marks>>

\* The key is written only if it is new.  The cell of a value also says which key
\* it is a value of; the code does not look at that.
PutData ==
    /\ pc = "data"
    /\ LET written == [data EXCEPT ![put.voff] = [key |-> op.key, val |-> op.val]]
       IN  data' = IF put.koff = put.base
                     THEN [written EXCEPT ![put.koff] = [key |-> op.key, val |-> NoValue]]
                   ELSE written
    /\ pc' = "log_find"
    /\ UNCHANGED <<rec, log, nr, locals, op, got, counts>>

\* The first entry that is not USED, or a new one at the end of the file.
PutFindsEntry ==
    /\ pc = "log_find"
    /\ LET unused == {i \in 1 .. Len(log) : log[i].status # "USED"}
       IN  IF unused # {}
             THEN /\ put' = [put EXCEPT !.entry = Min(unused)]
                  /\ pc' = "log_entry"
           ELSE IF log # << >> /\ ~Last(log).end
             THEN pc' = "put_stuck" /\ UNCHANGED put
           ELSE /\ put' = [put EXCEPT !.entry = Len(log) + 1]
                /\ pc' = "log_head"
    /\ UNCHANGED <<files, at, slot, buf, op, got, counts>>

PutHead ==
    /\ pc = "log_head"
    /\ nr' = nr + 1
    /\ pc' = "log_entry"
    /\ UNCHANGED <<data, rec, log, locals, op, got, counts>>

\* All of the entry but its last byte: an old entry keeps its end character.
PutEntry ==
    /\ pc = "log_entry"
    /\ LET new == [status |-> "USED", koff |-> put.koff, voff |-> put.voff,
                   end |-> put.entry <= Len(log)]
       IN  log' = IF new.end THEN [log EXCEPT ![put.entry] = new]
                             ELSE Append(log, new)
    /\ pc' = "log_end"
    /\ UNCHANGED <<data, rec, nr, locals, op, got, counts>>

\* Faulty variant: the end character is left out.
PutEndSkips == pc = "log_end" /\ pc' = "record" /\ UNCHANGED <<files, locals, op, got, counts>>

PutEnd ==
    /\ pc = "log_end"
    /\ log' = [log EXCEPT ![put.entry].end = TRUE]
    /\ pc' = "record"
    /\ UNCHANGED <<data, rec, nr, locals, op, got, counts>>

PutRecord ==
    /\ pc = "record"
    /\ rec' = [rec EXCEPT ![put.recno] = [status |-> "USED", koff |-> put.koff,
                                          voff |-> put.voff]]
    /\ op' = NoPut
    /\ pc' = "log_free"
    /\ UNCHANGED <<data, log, nr, locals, got, counts>>

\* Faulty variant: status is changed in the buffer only.
PutDisablesNothing ==
    /\ pc = "log_free"
    /\ put' = NoLocals
    /\ pc' = "idle"
    /\ UNCHANGED <<files, at, slot, buf, op, got, counts>>

PutDisables ==
    /\ pc = "log_free"
    /\ log' = [log EXCEPT ![put.entry].status = "FREE"]
    /\ put' = NoLocals
    /\ pc' = "idle"
    /\ UNCHANGED <<data, rec, nr, at, slot, buf, op, got, counts>>

Get(k) ==
    /\ pc = "idle"
    /\ got' = [key |-> k, val |-> Visible(k)]
    /\ UNCHANGED <<pc, files, locals, op, counts>>

\* kvdb_close, or the end of the process between two operations.
Close ==
    /\ pc = "idle"
    /\ pc' = "down"
    /\ put' = NoLocals /\ at' = 1 /\ slot' = 0 /\ buf' = NoBuf
    /\ UNCHANGED <<files, op, got, counts>>
------------------------------------------------------------------------------
\* may_crash, or somebody ends the process.  A death at a point of Marking leaves
\* something behind in the journal that a later recovery does not clear away.
Marking == {"log_short", "log_free", "rec_free"}
Here == IF pc = "log_end" /\ ~log[put.entry].end THEN "log_short" ELSE pc

Crash ==
    /\ Here \in CrashPoints
    /\ crashes < MaxCrashes
    /\ pc' = "down"
    /\ put' = NoLocals /\ at' = 1 /\ slot' = 0 /\ buf' = NoBuf
    /\ crashes' = crashes + 1
    /\ marks' = marks \cup ({Here} \cap Marking)
    /\ UNCHANGED <<files, op, got, puts>>

Recovery ==
    \/ Open \/ RecoverDone \/ RecoverSkips \/ RecoverReads \/ RecoverFinds
    \/ RecoverWrites \/ RecoverDisables \/ RecoverPasses \/ RecoverRunsOn

PutStep ==
    \/ PutData \/ PutFindsEntry \/ PutHead \/ PutEntry \/ PutEnd \/ PutRecord
    \/ PutDisables

KvdbNext ==
    \/ Recovery \/ PutStep \/ Close \/ Crash
    \/ \E k \in Keys : Get(k) \/ \E v \in Values : PutCall(k, v)

KvdbSpec == KvdbInit /\ [][KvdbNext]_kvVars
------------------------------------------------------------------------------
KvdbTypeOK ==
    /\ pc \in {"down", "rec_entry", "rec_scan", "rec_free", "idle", "data", "log_find",
               "log_head", "log_entry", "log_end", "record", "log_free", "put_stuck",
               "ruined"}
    /\ DOMAIN data = Offsets
    /\ \A o \in Offsets : /\ data[o].key \in Keys \cup {NoValue}
                          /\ data[o].val \in Values \cup {NoValue}
    /\ rec \in [Slots -> [status : Statuses, koff : Nat, voff : Nat]]
    /\ \A i \in DOMAIN log : log[i].status \in {"USED", "FREE"} /\ log[i].end \in BOOLEAN
    /\ nr \in 0 .. MaxPuts
    /\ puts \in 0 .. MaxPuts /\ crashes \in 0 .. MaxCrashes
    /\ op = NoPut \/ op \in [key : Keys, val : Values]

\* An offset pair is sound if it leads to a key and to a value of that key.
Sound(r) ==
    /\ {r.koff, r.voff} \subseteq Offsets
    /\ data[r.koff].key # NoValue /\ data[r.koff].val = NoValue
    /\ data[r.voff].val # NoValue /\ data[r.voff].key = data[r.koff].key

\* Every record in use leads to a key and a value of it that nothing has
\* overwritten, and no key has two records, whatever recovery has replayed and how
\* often it was cut off; but for a recovery that has ended its loop at a slot not in
\* use, with the offsets of a replay in it.
RecordsSound ==
    pc # "ruined" /\ "free_slot" \notin marks =>
        /\ \A j \in InUse : Sound(rec[j])
        /\ \A i, j \in InUse : KeyAt(i) = KeyAt(j) => i = j

\* A replay never brings back bytes that belong to something else by now: what a
\* complete entry in use points at is not reused while the entry may be replayed,
\* with the same exception.
LogSound ==
    pc # "ruined" /\ "free_slot" \notin marks =>
        \A i \in DOMAIN log : ToReplay(log[i]) => Sound(log[i])

\* What the table or the journal points at is what was written for it: neither a put
\* nor a death nor a replay, in whatever order, makes them lead to other bytes (in a
\* data file below 16 MiB, where Int2Str loses nothing).
OffsetsSound == RecordsSound /\ LogSound

\* recover reads nr_log entries: no entry that may have to be replayed is beyond
\* them, and what is beyond the end of the file is none.
JournalCounted == Len(log) <= nr

\* When the database is open, the journal does not know better: every entry that is
\* still in use and complete is in the table of records, unless a process has died
\* with a record written and its entry not disabled, or with a short entry.
JournalSettled ==
    pc = "idle" /\ marks = {} =>
        \A i \in DOMAIN log :
            ToReplay(log[i]) =>
                \E j \in InUse : rec[j].koff = log[i].koff /\ rec[j].voff = log[i].voff

\* kvdb.c:258: the search of kvdb_put meets the end of the journal and leaves its
\* loop, unless a process has died between the two writes of a new entry.
SearchEnds == pc = "put_stuck" => "log_short" \in marks

PutPoints == {"data", "log_find", "log_head", "log_entry", "log_end", "record",
              "log_free", "put_stuck"}

Store == INSTANCE KvStore WITH
    store <- [k \in Keys |-> Visible(k)],
    inflight <- op,
    busy <- pc \in PutPoints

\* The database keeps the promise of KvStore over the deaths of the process, until
\* one dies at a point of Marking or a recovery has run over the data area: a put
\* happens at once or not at all, and what has happened stays.  The data file is below
\* 16 MiB.
KvStoreUntilRuin ==
    Store!Init /\ [][Store!Next \/ pc' = "ruined" \/ marks # {}]_Store!vars

\* kvdb.c:324 has it that a death before the entry is disabled does no harm as
\* recover looks at it again: a value changes to that of a put that was not done
\* yet, and to nothing else.
NothingReturns == [][pc' # "ruined" =>
    \A k \in Keys : Visible(k)' # Visible(k) => op # NoPut /\ op.key = k]_kvVars

\* kvdb.c:96 has it that recover writes the record in a place it has found; then it
\* is done.
RecoverEnds == pc # "ruined"
=============================================================================
