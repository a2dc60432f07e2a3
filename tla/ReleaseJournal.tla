--------------------------- MODULE ReleaseJournal ---------------------------
(***************************************************************************)
(* The receipt journal of the release publisher (release_tools/journal.py):*)
(* numbered checkpoint files, a head file that names the newest, and a     *)
(* transaction file that carries the next receipt in full.  Every file is  *)
(* written under a staged name, linked to its own name and unstaged, with  *)
(* a directory sync after each change.  The process may die, a system call *)
(* may fail and the power may go at every step; whoever takes the lock     *)
(* next finishes the transaction it finds.                                 *)
(*                                                                         *)
(* A slot is a file together with its staged name.  A checkpoint is the    *)
(* number of the append call that wrote it.  Names and data are durable    *)
(* apart: a process that dies between its write and the sync of the file   *)
(* leaves data that no later step syncs, and a power loss may cut them off *)
(* under whatever name the file has then.                                  *)
(***************************************************************************)
EXTENDS Naturals, Sequences

CONSTANTS MaxAppends, MaxStops, MaxLosses   \* bounds of the instance

VARIABLES disk,     \* the receipt directory as processes see it
          left,     \* the directories a power loss may leave
          writer,   \* the process that holds the publisher lock
          acked,    \* the checkpoints of append calls that returned
          counts    \* appends, stops and damaged directories so far

journalVars == <<disk, left, writer, acked, counts>>

\* A slot: nothing, a staged file written in part or in full, both names
\* linked to one file, or the file under its own name only.
NoSlot == [is |-> "none", holds |-> 0]
Part(c) == [is |-> "part", holds |-> c]
Staged(c) == [is |-> "staged", holds |-> c]
Linked(c) == [is |-> "linked", holds |-> c]
Named(c) == [is |-> "named", holds |-> c]

\* The files whose data a later process takes as it finds them.
ReceiptFile(n) == <<"receipt", n>>
NextFile == <<"next", 0>>
HeadFile == <<"head", 0>>

\* What a transaction document holds for the append of checkpoint c.
NoTransaction == [seq |-> 0, before |-> 0, next |-> 0]

NewDirectory == [receipts |-> << >>, head |-> [seq |-> 0, is |-> 0],
                 receipt |-> NoSlot, next |-> NoSlot,
                 txn |-> NoSlot, body |-> NoTransaction,
                 soft |-> {},      \* files whose data were never synced
                 torn |-> {}]      \* files that a power loss cut short

NoWriter == [pc |-> "down", todo |-> 0, latest |-> 0]
JournalBlocked == [NoWriter EXCEPT !.pc = "blocked"]

JournalInit ==
    /\ disk = NewDirectory
    /\ left = {NewDirectory}
    /\ writer = NoWriter
    /\ acked = << >>
    /\ counts = [appends |-> 0, stops |-> 0, losses |-> 0]

----------------------------------------------------------------------------
(* The directory.  A change of names is seen at once and is durable after  *)
(* the directory sync that follows it; the data of a file are durable      *)
(* after its own sync.                                                     *)

NowDurable(d) == disk' = d /\ left' = {d}
NotYetDurable(d) == disk' = d /\ left' = left \cup {d}
NoChange == UNCHANGED <<disk, left>>
Stopping == counts.stops < MaxStops /\ counts' = [counts EXCEPT !.stops = @ + 1]

\* A step that changes no file.
Goes(w) == writer' = w /\ NoChange /\ UNCHANGED <<acked, counts>>

\* A change and its sync; when the sync fails, PublicationBlocked ends the
\* process with the change seen and its durability open.
Does(d, w) ==
    \/ NowDurable(d) /\ writer' = w /\ UNCHANGED counts
    \/ NotYetDurable(d) /\ writer' = NoWriter /\ Stopping

\* The staged file is created; its data and its name are not yet synced.
Begins(slot, c, w) ==
    /\ writer' = w
    /\ NotYetDurable([disk EXCEPT ![slot] = Part(c)])
    /\ UNCHANGED counts

\* A file is removed, and whatever was said of its data with it.
Without(d, file) == [d EXCEPT !.soft = @ \ {file}, !.torn = @ \ {file}]

\* _write_staged_file, from the write on.
WriteStagedFile(slot) == [disk EXCEPT ![slot] = Staged(@.holds)]

\* Write, sync of the file and sync of the directory; the process may end
\* after the write with nothing synced.
Writes(slot, file, w) ==
    \/ NowDurable(WriteStagedFile(slot)) /\ writer' = w /\ UNCHANGED counts
    \/ /\ NotYetDurable([WriteStagedFile(slot) EXCEPT !.soft = @ \cup {file}])
       /\ writer' = NoWriter /\ Stopping

\* _publish_staged_no_replace and _complete_link_publication: link, unlink.
PublishStagedNoReplace(slot) ==
    [disk EXCEPT ![slot] = IF @.is = "staged" THEN Linked(@.holds) ELSE Named(@.holds)]

FileOf(slot) == IF slot = "next" THEN NextFile ELSE ReceiptFile(disk.body.seq)

\* The file holds a strict prefix of what the transaction says.  Of two linked
\* names the staged one goes first, whatever the file holds.
Short(slot) ==
    disk[slot].is = "part" \/ (disk[slot].is # "linked" /\ FileOf(slot) \in disk.torn)

\* _ensure_transaction_bound_file, one change at a time, when the staged file
\* was not created by this very call: a strict prefix is removed, and a file
\* found whole is published as it is, without a sync of its data.
BoundFileStepStrict(slot) ==
    IF disk[slot].is = "part" THEN Goes(JournalBlocked)
    ELSE Does(PublishStagedNoReplace(slot), writer)

BoundFileStep(slot) ==
    IF Short(slot) THEN Does(Without([disk EXCEPT ![slot] = NoSlot], FileOf(slot)), writer)
    ELSE Does(PublishStagedNoReplace(slot), writer)

----------------------------------------------------------------------------
(* What a load requires of the directory.                                  *)

LastOf(records) == IF records = << >> THEN 0 ELSE records[Len(records)]
HeadOf(records) == [seq |-> Len(records), is |-> LastOf(records)]

ValidateRecordsHeadSkipped(records, head) == Len(records) <= head.seq

\* _validate_records_head: the head names the last receipt and its hash.
ValidateRecordsHead(records, head) == head = HeadOf(records)

\* The receipts that a load decodes: those before the transaction's own, which
\* is compared with the transaction instead.
ChainLength(d) ==
    IF d.txn.is \in {"linked", "named"} THEN d.body.seq - 1 ELSE Len(d.receipts)

\* _read_head and _load_record_chain: the head and those receipts are whole.
ChainReads(d) ==
    /\ HeadFile \notin d.torn
    /\ \A n \in 1 .. ChainLength(d) : ReceiptFile(n) \notin d.torn

\* _recover_transaction up to its first change: the transaction must extend
\* the chain it was written for.
TransactionFits ==
    LET t == disk.body
        before == [seq |-> t.seq - 1, is |-> t.before]
    IN  /\ disk.head \in {before, [seq |-> t.seq, is |-> t.next]}
        /\ Len(disk.receipts) \in {t.seq - 1, t.seq}
        /\ ValidateRecordsHead(SubSeq(disk.receipts, 1, t.seq - 1), before)

----------------------------------------------------------------------------
(* The steps of the writer.                                                *)

\* exclusive() and load_latest.
TakeLock == writer.pc = "down" /\ Goes([NoWriter EXCEPT !.pc = "staging"])

\* _recover_transaction_staging: a linked transaction counts, a staged one not.
RecoverTransactionStaging ==
    LET next == [writer EXCEPT !.pc = "recover"]
    IN  /\ writer.pc = "staging" /\ UNCHANGED acked
        /\ CASE disk.txn.is = "linked" -> Does(PublishStagedNoReplace("txn"), next)
             [] disk.txn.is \in {"part", "staged"} ->
                  Does([disk EXCEPT !.txn = NoSlot, !.body = NoTransaction], next)
             [] disk.txn.is \in {"none", "named"} -> Goes(next)

\* _recover_transaction: without a transaction no other slot may be in use.
RecoverTransaction ==
    /\ writer.pc = "recover"
    /\ Goes(IF disk.txn = NoSlot
            THEN IF disk.next # NoSlot \/ disk.receipt # NoSlot THEN JournalBlocked
                 ELSE [writer EXCEPT !.pc = "load"]
            ELSE IF ChainReads(disk) /\ TransactionFits THEN [writer EXCEPT !.pc = "receipt"] ELSE JournalBlocked)

\* _load_all's last checks; load_latest returns, or append goes on.
LoadAll ==
    /\ writer.pc = "load"
    /\ Goes(IF ChainReads(disk) /\ ValidateRecordsHead(disk.receipts, disk.head)
            THEN [writer EXCEPT !.pc = IF writer.todo = 0 THEN "ready" ELSE "txn",
                                !.latest = LastOf(disk.receipts)]
            ELSE JournalBlocked)

\* append is called with a new checkpoint; it loads everything once more.
CallAppend ==
    /\ writer.pc = "ready" /\ counts.appends < MaxAppends
    /\ counts' = [counts EXCEPT !.appends = @ + 1]
    /\ writer' = [writer EXCEPT !.pc = "staging", !.todo = counts.appends + 1]
    /\ NoChange /\ UNCHANGED acked

\* _publish_transaction: the document goes through its staged name too.
PublishTransaction ==
    LET body == [seq |-> Len(disk.receipts) + 1, before |-> LastOf(disk.receipts),
                 next |-> writer.todo]
    IN  /\ writer.pc = "txn" /\ UNCHANGED acked
        /\ CASE disk.txn.is = "none" -> Begins("txn", writer.todo, writer)
             [] disk.txn.is = "part" -> Does([WriteStagedFile("txn") EXCEPT !.body = body], writer)
             [] disk.txn.is \in {"staged", "linked"} -> Does(PublishStagedNoReplace("txn"), writer)
             [] disk.txn.is = "named" -> Goes([writer EXCEPT !.pc = "receipt"])

\* The next receipt, from the transaction's own copy of it: one that is there
\* and short is removed.
InstallReceipt ==
    /\ writer.pc = "receipt" /\ UNCHANGED acked
    /\ IF Len(disk.receipts) = disk.body.seq
       THEN IF FileOf("receipt") \notin disk.torn THEN Goes([writer EXCEPT !.pc = "head"])
            ELSE Does(Without([disk EXCEPT !.receipts = SubSeq(@, 1, Len(@) - 1)],
                              FileOf("receipt")), writer)
       ELSE CASE disk.receipt = NoSlot ->
                   Begins("receipt", disk.body.next, [writer EXCEPT !.pc = "receipt_data"])
              [] disk.receipt.is = "linked" ->
                   Does([disk EXCEPT !.receipts = Append(@, disk.body.next),
                                     !.receipt = NoSlot], writer)
              [] disk.receipt.is \in {"part", "staged"} -> BoundFileStep("receipt")

WriteReceipt ==
    /\ writer.pc = "receipt_data" /\ UNCHANGED acked
    /\ Writes("receipt", FileOf("receipt"), [writer EXCEPT !.pc = "receipt"])

\* What os.replace makes of the data nobody synced.
Replaced(soft) ==
    (soft \ {NextFile, HeadFile}) \cup (IF NextFile \in soft THEN {HeadFile} ELSE {})

\* _install_head: the next head is staged like a receipt, then replaces the
\* head; a head already advanced must have left nothing behind.
InstallHead ==
    LET nextHead == [seq |-> disk.body.seq, is |-> disk.body.next]
        clear == [writer EXCEPT !.pc = "clear"]
    IN  /\ writer.pc = "head" /\ UNCHANGED acked
        /\ CASE disk.head = nextHead -> Goes(IF disk.next = NoSlot THEN clear ELSE JournalBlocked)
             [] disk.head # nextHead /\ disk.next = NoSlot ->
                  Begins("next", disk.body.next, [writer EXCEPT !.pc = "head_data"])
             [] disk.head # nextHead /\ disk.next.is = "named" /\ ~Short("next") ->
                  Does([disk EXCEPT !.head = nextHead, !.next = NoSlot, !.soft = Replaced(@)],
                       clear)
             [] /\ disk.head # nextHead /\ disk.next # NoSlot
                /\ disk.next.is = "named" => Short("next") -> BoundFileStep("next")

WriteHead ==
    /\ writer.pc = "head_data" /\ UNCHANGED acked
    /\ Writes("next", NextFile, [writer EXCEPT !.pc = "head"])

\* _clear_transaction; the load goes on, or append returns.
ClearTransaction ==
    /\ writer.pc = "clear" /\ UNCHANGED acked
    /\ Does([disk EXCEPT !.txn = NoSlot, !.body = NoTransaction],
            [writer EXCEPT !.pc = IF writer.todo = disk.body.next THEN "return" ELSE "load"])

AppendReturns ==
    /\ writer.pc = "return"
    /\ acked' = Append(acked, writer.todo)
    /\ writer' = [writer EXCEPT !.pc = "ready", !.todo = 0, !.latest = writer.todo]
    /\ NoChange /\ UNCHANGED counts

----------------------------------------------------------------------------
(* What may go wrong.                                                      *)

\* The process dies or ends; the kernel drops its lock.
WriterStops ==
    /\ writer.pc # "down" /\ Stopping
    /\ writer' = NoWriter
    /\ NoChange /\ UNCHANGED acked

\* The power goes: some directory that was not ruled out by a sync is left, and
\* of the data nobody synced any part may be gone.
PowerFails ==
    /\ Stopping
    /\ \E d \in left : \E cut \in SUBSET d.soft :
          NowDurable([d EXCEPT !.soft = {}, !.torn = @ \cup cut])
    /\ writer' = NoWriter
    /\ UNCHANGED acked

\* A backup restored over the directory comes without its last receipt.
ReceiptLost ==
    /\ writer.pc = "down" /\ counts.losses < MaxLosses
    /\ disk.receipts # << >>
    /\ counts' = [counts EXCEPT !.losses = @ + 1]
    /\ NowDurable(Without([disk EXCEPT !.receipts = SubSeq(@, 1, Len(@) - 1)],
                          ReceiptFile(Len(disk.receipts))))
    /\ UNCHANGED <<writer, acked>>

JournalNext ==
    \/ TakeLock \/ RecoverTransactionStaging \/ RecoverTransaction \/ LoadAll
    \/ CallAppend \/ PublishTransaction \/ InstallReceipt \/ WriteReceipt
    \/ InstallHead \/ WriteHead \/ ClearTransaction \/ AppendReturns
    \/ WriterStops \/ PowerFails \/ ReceiptLost

JournalSpec == JournalInit /\ [][JournalNext]_journalVars

----------------------------------------------------------------------------
\* The publisher resumes only from the newest checkpoint: whatever crashed and
\* whatever file a restored backup is missing, a load that succeeds returns a
\* checkpoint no older than the last one append returned for
\* (_validate_records_head, _recover_transaction).
ResumesFromNewest ==
    writer.pc = "ready" /\ acked # << >> => writer.latest >= LastOf(acked)

\* No crash, failed sync or power loss at any step of an append or of a
\* recovery leaves a directory that the next process refuses
\* (FileReceiptJournal: "lets recovery finish any crash before or after the
\* atomic head advance"), with two exceptions.  A file that disappeared blocks
\* the journal, as it should.  And the claim fails for data that were written
\* but not synced when their process died: the recovery that finds the staged
\* file whole publishes it with a directory sync only, so a power loss after
\* that may leave a receipt or a head cut short under its own name, and every
\* later load refuses it.  A receipt or a next head that is cut short while its
\* transaction is still there is repaired and blocks nothing.
CrashesNeverBlock ==
    writer.pc = "blocked" => counts.losses > 0 \/ ~ChainReads(disk)
=============================================================================
