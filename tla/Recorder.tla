------------------------------ MODULE Recorder ------------------------------
(***************************************************************************)
(* sh_recorder.cpp: the log of hooks and unhooks.  Two buffers only grow:  *)
(* a pool of strings and the records, which name strings by their index in *)
(* the pool.  Each has its own lock.  A record is written in several       *)
(* sections, one for every string and one for itself; an output holds both *)
(* locks over its loop, and goes on after it when the loop failed.         *)
(*                                                                         *)
(* A string is a value with a size; the timestamp, the addresses and the   *)
(* layout of a line are left out.  The checks of the lengths of the names  *)
(* are taken as passed, and so is the one of the flags of an output.       *)
(***************************************************************************)
EXTENDS Integers, Sequences

CONSTANTS
    Threads,
    StrSize,        \* StrSize[s]: the room string s takes in the pool
    StringsStep, StringsMax,
    HookSize, UnhookSize, RecordsStep, RecordsMax,
    LineSize, OutputStep, OutputMax,
    IdxMax          \* UINT16_MAX

ASSUME SizeAssumption ==
    /\ StrSize \in [DOMAIN StrSize -> Nat \ {0}]
    /\ {StringsStep, StringsMax, HookSize, UnhookSize, RecordsStep, RecordsMax,
        LineSize, OutputStep, OutputMax, IdxMax} \subseteq Nat \ {0}

VARIABLES
    strings, records,           \* sh_recorder_strings, sh_recorder_records
    stringsLock, recordsLock,   \* their locks, held over the loop of an output
    recordable, error,          \* sh_recorder_recordable, sh_recorder_error
    rec,        \* rec[t]: the call of thread t
    missed,     \* history: an operation was not recorded
    crashed     \* the process wrote through a null pointer

recorderVars == <<strings, records, stringsLock, recordsLock, recordable, error,
                  rec, missed, crashed>>

Nobody == "nobody"
ASSUME ThreadsAssumption == Nobody \notin Threads
Quiet == [at |-> "quiet"]

NoBuf == [seq |-> <<>>, cap |-> 0, sz |-> 0]
NoOutput == [seq |-> <<>>, cap |-> 0, sz |-> 0, freed |-> FALSE]

RecorderInit ==
    /\ strings = NoBuf /\ records = NoBuf
    /\ stringsLock = Nobody /\ recordsLock = Nobody
    /\ recordable \in BOOLEAN /\ error = FALSE
    /\ rec = [t \in Threads |-> Quiet]
    /\ missed = FALSE /\ crashed = FALSE
-----------------------------------------------------------------------------
(* sh_recorder_buf_append *)

HasRoom(buf, n) == buf.cap - buf.sz >= n

\* It grows by one step at a time, and fails when a step would pass the limit
\* or there is no memory for it.
MayPut(buf, step, max, n) == n <= step /\ (HasRoom(buf, n) \/ buf.cap + step <= max)
MayFail(buf, step, n) == n > step \/ ~HasRoom(buf, n)
Put(buf, step, x, n) ==
    [buf EXCEPT !.seq = Append(@, x), !.sz = @ + n,
                !.cap = IF HasRoom(buf, n) THEN @ ELSE @ + step]
-----------------------------------------------------------------------------
(* sh_recorder_add_hook and sh_recorder_add_unhook *)

\* names: for a hook the library, the symbol and the caller's library; for an
\* unhook the caller's library.
Record(t, op, ok, stub, names) ==
    IF recordable /\ ~error
    THEN /\ rec' = [rec EXCEPT ![t] = [at |-> "adding", op |-> op, ok |-> ok, stub |-> stub,
                                       names |-> names, idx |-> <<>>]]
         /\ UNCHANGED missed
    ELSE missed' = TRUE /\ UNCHANGED rec

Held(s) == \E i \in DOMAIN strings.seq : strings.seq[i] = s
\* Mutant: the position counts from one.
FirstIndex_Mutant(s) ==
    CHOOSE i \in 2..Len(strings.seq) + 1 :
        strings.seq[i - 1] = s /\ \A j \in 1..i - 2 : strings.seq[j] # s

FirstIndex(s) ==
    CHOOSE i \in DOMAIN strings.seq :
        strings.seq[i] = s /\ \A j \in 1..i - 1 : strings.seq[j] # s

Indexed(t, i) == rec' = [rec EXCEPT ![t].idx = Append(@, i)]
GiveUp(t) == error' = TRUE /\ rec' = [rec EXCEPT ![t] = Quiet]

\* sh_recorder_add_str for the next name.
AddStr(t) ==
    /\ rec[t].at = "adding" /\ Len(rec[t].idx) < Len(rec[t].names)
    /\ stringsLock = Nobody
    /\ LET s == rec[t].names[Len(rec[t].idx) + 1]
       IN  \/ /\ Held(s)
              /\ Indexed(t, FirstIndex(s) - 1)
              /\ UNCHANGED <<strings, error>>
           \/ /\ ~Held(s)
              /\ Len(strings.seq) < IdxMax
              /\ MayPut(strings, StringsStep, StringsMax, StrSize[s])
              /\ strings' = Put(strings, StringsStep, s, StrSize[s])
              /\ Indexed(t, Len(strings.seq))
              /\ UNCHANGED error
           \/ /\ ~Held(s)
              /\ Len(strings.seq) >= IdxMax \/ MayFail(strings, StringsStep, StrSize[s])
              /\ GiveUp(t)
              /\ UNCHANGED strings
    /\ UNCHANGED <<records, stringsLock, recordsLock, recordable, missed, crashed>>

AddRecord(t) ==
    /\ rec[t].at = "adding" /\ Len(rec[t].idx) = Len(rec[t].names)
    /\ recordsLock = Nobody
    /\ LET size == IF rec[t].op = "hook" THEN HookSize ELSE UnhookSize
           row == [op |-> rec[t].op, ok |-> rec[t].ok, stub |-> rec[t].stub,
                   idx |-> rec[t].idx,
                   names |-> rec[t].names]  \* history: what idx stands for
       IN  \/ /\ MayPut(records, RecordsStep, RecordsMax, size)
              /\ records' = Put(records, RecordsStep, row, size)
              /\ rec' = [rec EXCEPT ![t] = Quiet]
              /\ UNCHANGED error
           \/ /\ MayFail(records, RecordsStep, size)
              /\ GiveUp(t)
              /\ UNCHANGED records
    /\ UNCHANGED <<strings, stringsLock, recordsLock, recordable, missed, crashed>>
-----------------------------------------------------------------------------
(* sh_recorder_output, for sh_recorder_get ("string") and _dump ("fd") *)

ErrorLine == "error"
End == "end"

\* sh_recorder_find_str: an index one past the end is not noticed.
FindStr(i) ==
    IF i < Len(strings.seq) THEN strings.seq[i + 1]
    ELSE IF i = Len(strings.seq) THEN "garbage" ELSE "error"
Line(row) == [op |-> row.op, ok |-> row.ok, stub |-> row.stub,
              names |-> [k \in DOMAIN row.idx |-> FindStr(row.idx[k])]]

Output(t, to) ==
    /\ IF recordable /\ records.sz > 0
       THEN rec' = [rec EXCEPT ![t] = [at |-> "lock records", to |-> to, out |-> NoOutput,
                                       i |-> 1, upto |-> 0,
                                       failed |-> FALSE]]   \* history
       ELSE UNCHANGED rec
    /\ UNCHANGED missed

Go(t, where) == [rec EXCEPT ![t].at = where]
OutUnchanged == UNCHANGED <<strings, records, recordable, error, missed>>

LockRecords(t) ==
    /\ rec[t].at = "lock records" /\ recordsLock = Nobody
    /\ recordsLock' = t
    /\ rec' = [Go(t, "lock strings") EXCEPT ![t].upto = Len(records.seq)]
    /\ OutUnchanged /\ UNCHANGED <<stringsLock, crashed>>

LockStrings(t) ==
    /\ rec[t].at = "lock strings" /\ stringsLock = Nobody
    /\ stringsLock' = t
    /\ rec' = Go(t, "lines")
    /\ OutUnchanged /\ UNCHANGED <<recordsLock, crashed>>

\* Append x to the output and go on at next, or fail and go on at onFail.  A
\* failure frees the buffer and keeps its size (lines 94-99): with room left
\* the next append writes through NULL; without, a new buffer is filled behind
\* the room that the lost lines took.
PutOut(t, x, n, next, onFail) ==
    LET out == rec[t].out
        string == rec[t].to = "string"
    IN  \/ /\ ~string
           /\ rec' = [Go(t, next) EXCEPT ![t].out.seq = Append(@, x), ![t].i = @ + 1]
           /\ UNCHANGED crashed
        \/ /\ string /\ MayPut(out, OutputStep, OutputMax, n)
           /\ ~(out.freed /\ HasRoom(out, n))
           /\ LET fresh == IF out.freed /\ out.sz > 0 THEN [out EXCEPT !.seq = <<"garbage">>] ELSE out
              IN  rec' = [Go(t, next) EXCEPT
                            ![t].out = [Put(fresh, OutputStep, x, n) EXCEPT !.freed = FALSE],
                            ![t].i = @ + 1]
           /\ UNCHANGED crashed
        \/ /\ ~string \/ MayFail(out, OutputStep, n)
           /\ rec' = [Go(t, onFail) EXCEPT
                        ![t].failed = TRUE,
                        ![t].out = IF string THEN [@ EXCEPT !.seq = <<>>, !.freed = TRUE] ELSE @]
           /\ UNCHANGED crashed
        \/ /\ string /\ out.freed /\ HasRoom(out, n)
           /\ crashed' = TRUE
           /\ UNCHANGED rec

\* Mutant: a failure leaves the loop by the way out that has no locks.
OutLine_Mutant(t) ==
    /\ rec[t].at = "lines" /\ rec[t].i <= Len(records.seq)
    /\ PutOut(t, Line(records.seq[rec[t].i]), LineSize, "lines", "error line")
    /\ OutUnchanged /\ UNCHANGED <<stringsLock, recordsLock>>

OutLine(t) ==
    /\ rec[t].at = "lines" /\ rec[t].i <= Len(records.seq)
    /\ PutOut(t, Line(records.seq[rec[t].i]), LineSize, "lines", "unlock")
    /\ OutUnchanged /\ UNCHANGED <<stringsLock, recordsLock>>

\* Mutant: the loop ends one record early.
OutUnlock_Mutant(t) ==
    /\ \/ rec[t].at = "unlock"
       \/ rec[t].at = "lines" /\ rec[t].i >= Len(records.seq)
    /\ stringsLock' = Nobody /\ recordsLock' = Nobody
    /\ rec' = Go(t, "error line")
    /\ OutUnchanged /\ UNCHANGED crashed

OutUnlock(t) ==
    /\ \/ rec[t].at = "unlock"
       \/ rec[t].at = "lines" /\ rec[t].i > Len(records.seq)
    /\ stringsLock' = Nobody /\ recordsLock' = Nobody
    /\ rec' = Go(t, "error line")
    /\ OutUnchanged /\ UNCHANGED crashed

OutErrorLine(t) ==
    /\ rec[t].at = "error line"
    /\ IF error THEN PutOut(t, ErrorLine, LineSize, "finish", "got")
       ELSE rec' = Go(t, "finish") /\ UNCHANGED crashed
    /\ OutUnchanged /\ UNCHANGED <<stringsLock, recordsLock>>

OutFinish(t) ==
    /\ rec[t].at = "finish"
    /\ IF rec[t].to = "string" THEN PutOut(t, End, 1, "got", "got")
       ELSE rec' = Go(t, "got") /\ UNCHANGED crashed
    /\ OutUnchanged /\ UNCHANGED <<stringsLock, recordsLock>>

RecorderStep(t) ==
    \/ AddStr(t) \/ AddRecord(t)
    \/ LockRecords(t) \/ LockStrings(t) \/ OutLine(t) \/ OutUnlock(t)
    \/ OutErrorLine(t) \/ OutFinish(t)
-----------------------------------------------------------------------------
\* Whatever threads write and in whatever order their sections run, the indices
\* of a record, and those a thread has collected for one, stand for the strings
\* they were made from, and no string is in the pool twice.
RecordsResolve ==
    /\ \A n \in DOMAIN records.seq :
         LET row == records.seq[n]
         IN  Len(row.idx) = Len(row.names)
             /\ \A k \in DOMAIN row.idx : FindStr(row.idx[k]) = row.names[k]
    /\ \A t \in Threads : rec[t].at = "adding" =>
         \A k \in DOMAIN rec[t].idx : FindStr(rec[t].idx[k]) = rec[t].names[k]
    /\ \A i, j \in DOMAIN strings.seq : strings.seq[i] = strings.seq[j] => i = j

\* An output none of whose appends failed shows every record that there was when
\* it took the lock, whole and in order, and then at most the line that tells of
\* lost ones.  Nothing else in the recorder ends the process than an output that
\* goes on after a failed append.
OutputIsWhole ==
    /\ \A t \in Threads : rec[t].at = "got" /\ ~rec[t].failed =>
         \E lost \in {<<>>, <<ErrorLine>>} :
           rec[t].out.seq =
             [n \in 1..rec[t].upto |->
                LET row == records.seq[n]
                IN  [op |-> row.op, ok |-> row.ok, stub |-> row.stub, names |-> row.names]]
             \o lost
             \o (IF rec[t].to = "string" THEN <<End>> ELSE <<>>)
    /\ crashed => \E t \in Threads : rec[t].at # "quiet" /\ rec[t].at # "adding" /\ rec[t].failed
=============================================================================
