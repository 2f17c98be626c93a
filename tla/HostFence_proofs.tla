---------------------------- MODULE HostFence_proofs ----------------------------
(***************************************************************************)
(* Proofs, for every set of boots and transactions and any number of       *)
(* faults, of what the run of MCHostFence checks.  The argument: the fence *)
(* row changes only under FOR UPDATE, so never under an entered mutation;  *)
(* a token is published only on the session that holds the advisory lock;  *)
(* and a token is revoked only of a Host that is terminal, or that lost    *)
(* the lock to the recovery which revokes it.                              *)
(***************************************************************************)
EXTENDS HostFence, TLAPS

Unpublished == {"new", "reserved", "unreserved", "leased", "recovering", "revoked", "recovered"}
Entered == {"entered", "revoked", "unrevoked", "left", "resumed", "failed"}

BootType ==
    [Boots -> [pc : {"new", "reserved", "unreserved", "leased", "published", "host",
                     "recovering", "revoked", "recovered", "over", "dead"},
               resumes : Boots \cup {None}]]

(* A current token was published at the current revision.                   *)
RevisionOK == fence.token # None => since[fence.token] = fence.revision

(* A boot has published nothing before it publishes; the source it recovers *)
(* was a Host, cannot hold the lease again, and has lost its token once the *)
(* recovery went on.                                                        *)
BootOK(b) ==
    /\ boot[b].pc \in Unpublished => since[b] = 0
    /\ boot[b].pc \in {"recovering", "revoked", "recovered"} =>
          boot[b].resumes \in Boots /\ boot[boot[b].resumes].pc \in {"host", "dead"}
    /\ boot[b].pc = "recovering" => ~HoldsLease(boot[b].resumes)
    /\ boot[b].pc \in {"revoked", "recovered"} => fence.token # boot[b].resumes

(* Maintenance makes a Host terminal first and takes its token after.       *)
HostOK(b) ==
    /\ host[b].entry # "none" => boot[b].pc = "host"
    /\ host[b].entry \in Entered => host[b].terminal
    /\ host[b].entry \in {"revoked", "left", "resumed"} => fence.token # b

SourceOK == source # None => boot[source].pc \in {"host", "dead"}

Inv ==
    /\ TypeOK
    /\ EnteredBeforeTransfer
    /\ RevisionOK
    /\ \A b \in Boots : BootOK(b)
    /\ \A b \in Boots : HostOK(b)
    /\ SourceOK
    /\ LiveHostOwns

(* A boot that ends was recovered by nobody: it never was a Host.            *)
LEMMA OverKeeps ==
    ASSUME Inv, NEW b \in Boots, boot[b].pc \notin {"host", "dead"},
           boot' = [boot EXCEPT ![b] = [pc |-> "over", resumes |-> None]],
           UNCHANGED <<fence, since>>,
           UNCHANGED lock
    PROVE  (\A c \in Boots : BootOK(c))'
  <1> SUFFICES ASSUME NEW c \in Boots PROVE BootOK(c)'
    OBVIOUS
  <1>1. CASE c = b
    <2>1. boot'[c].pc = "over"
      BY <1>1 DEF Inv, TypeOK
    <2> QED BY <2>1 DEF BootOK, Unpublished
  <1>2. CASE c # b
    <2>1. boot'[c] = boot[c] /\ BootOK(c)
      BY <1>2 DEF Inv, TypeOK
    <2>2. \A d \in Boots \ {b} : boot'[d] = boot[d]
      BY DEF Inv, TypeOK
    <2> QED BY <2>1, <2>2 DEF BootOK, HoldsLease
  <1> QED BY <1>1, <1>2

(* A new mutation shares the row and is under nobody's fence yet.           *)
LEMMA LockFenceStep ==
    ASSUME Inv, NEW t \in Tx, NEW b \in Boots, LockFence(t, b)
    PROVE  Inv'
  <1>1. TypeOK'
    BY DEF Inv, LockFence, At, Authorized, row, TypeOK
  <1>2. EnteredBeforeTransfer'
    BY DEF Inv, LockFence, At, Authorized, row, TypeOK, EnteredBeforeTransfer, Sharing
  <1>3. /\ RevisionOK'
       /\ (\A c \in Boots : BootOK(c))'
       /\ (\A c \in Boots : HostOK(c))'
       /\ SourceOK'
       /\ LiveHostOwns'
    BY DEF Inv, LockFence, row, RevisionOK, BootOK, HoldsLease, Unpublished, HostOK,
        Entered, SourceOK, LiveHostOwns
  <1> QED BY <1>1, <1>2, <1>3 DEF Inv

(* A mutation passes the fence only under the current token.                *)
LEMMA VerifyFenceStep ==
    ASSUME Inv, NEW t \in Tx, VerifyFence(t)
    PROVE  Inv'
  <1>1. TypeOK'
    <2>1. tx[t] \in [at : {"locked", "working", "committing"}, by : Boots]
      BY DEF Inv, VerifyFence, Moves, IdleTx, TypeOK
    <2> QED BY <2>1 DEF Inv, VerifyFence, Moves, row, TypeOK
  <1>2. EnteredBeforeTransfer'
    BY DEF Inv, VerifyFence, Moves, Alive, At, TokenIsCurrent, Authorized, row, TypeOK,
        EnteredBeforeTransfer, Sharing
  <1>3. /\ RevisionOK'
       /\ (\A c \in Boots : BootOK(c))'
       /\ (\A c \in Boots : HostOK(c))'
       /\ SourceOK'
       /\ LiveHostOwns'
    BY DEF Inv, VerifyFence, row, RevisionOK, BootOK, HoldsLease, Unpublished, HostOK,
        Entered, SourceOK, LiveHostOwns
  <1> QED BY <1>1, <1>2, <1>3 DEF Inv

(* Nothing is checked again: the row is still shared.                       *)
LEMMA SendCommitStep ==
    ASSUME Inv, NEW t \in Tx, SendCommit(t)
    PROVE  Inv'
  <1>1. TypeOK'
    <2>1. tx[t] \in [at : {"locked", "working", "committing"}, by : Boots]
      BY DEF Inv, SendCommit, Moves, IdleTx, TypeOK
    <2> QED BY <2>1 DEF Inv, SendCommit, Moves, row, TypeOK
  <1>2. EnteredBeforeTransfer'
    BY DEF Inv, SendCommit, Moves, Alive, At, row, TypeOK, EnteredBeforeTransfer,
        Sharing
  <1>3. /\ RevisionOK'
       /\ (\A c \in Boots : BootOK(c))'
       /\ (\A c \in Boots : HostOK(c))'
       /\ SourceOK'
       /\ LiveHostOwns'
    BY DEF Inv, SendCommit, row, RevisionOK, BootOK, HoldsLease, Unpublished, HostOK,
        Entered, SourceOK, LiveHostOwns
  <1> QED BY <1>1, <1>2, <1>3 DEF Inv

(* A commit gives its share of the row back.                                *)
LEMMA ServerCommitsStep ==
    ASSUME Inv, NEW t \in Tx, ServerCommits(t)
    PROVE  Inv'
  <1>1. TypeOK'
    BY DEF Inv, ServerCommits, EndTx, IdleTx, row, TypeOK
  <1>2. EnteredBeforeTransfer'
    BY DEF Inv, ServerCommits, EndTx, IdleTx, row, TypeOK, EnteredBeforeTransfer,
        Sharing
  <1>3. /\ RevisionOK'
       /\ (\A c \in Boots : BootOK(c))'
       /\ (\A c \in Boots : HostOK(c))'
       /\ SourceOK'
       /\ LiveHostOwns'
    BY DEF Inv, ServerCommits, row, RevisionOK, BootOK, HoldsLease, Unpublished,
        HostOK, Entered, SourceOK, LiveHostOwns
  <1> QED BY <1>1, <1>2, <1>3 DEF Inv

(* So does a rollback.                                                      *)
LEMMA RollbackStep ==
    ASSUME Inv, NEW t \in Tx, Rollback(t)
    PROVE  Inv'
  <1>1. TypeOK'
    BY DEF Inv, Rollback, EndTx, IdleTx, row, TypeOK
  <1>2. EnteredBeforeTransfer'
    BY DEF Inv, Rollback, EndTx, IdleTx, row, TypeOK, EnteredBeforeTransfer, Sharing
  <1>3. /\ RevisionOK'
       /\ (\A c \in Boots : BootOK(c))'
       /\ (\A c \in Boots : HostOK(c))'
       /\ SourceOK'
       /\ LiveHostOwns'
    BY DEF Inv, Rollback, row, RevisionOK, BootOK, HoldsLease, Unpublished, HostOK,
        Entered, SourceOK, LiveHostOwns
  <1> QED BY <1>1, <1>2, <1>3 DEF Inv

(* A session that ends can only take the lease away.                        *)
LEMMA ServerDropsStep ==
    ASSUME Inv, ServerDrops
    PROVE  Inv'
  <1>1. TypeOK'
    BY BoundAssumption DEF Inv, ServerDrops, Free, Attended, At, Fault, row, TypeOK
  <1>2. (\A c \in Boots : BootOK(c))'
    BY DEF Inv, ServerDrops, Free, Attended, At, Fault, row, TypeOK, BootOK,
        HoldsLease, Unpublished
  <1>3. LiveHostOwns'
    BY DEF Inv, ServerDrops, Free, Attended, At, Fault, row, TypeOK, LiveHostOwns,
        HoldsLease
  <1>4. /\ EnteredBeforeTransfer'
       /\ RevisionOK'
       /\ (\A c \in Boots : HostOK(c))'
       /\ SourceOK'
    BY DEF Inv, ServerDrops, row, EnteredBeforeTransfer, Sharing, RevisionOK, HostOK,
        Entered, SourceOK
  <1> QED BY <1>1, <1>2, <1>3, <1>4 DEF Inv

(* A client's view of its lease is not the database's.                      *)
LEMMA LoseLeaseStep ==
    ASSUME Inv, NEW b \in Boots, LoseLease(b)
    PROVE  Inv'
  <1>1. TypeOK'
    BY BoundAssumption DEF Inv, LoseLease, At, HoldsLease, Fault, LeaseTo, row, TypeOK
  <1>2. /\ EnteredBeforeTransfer'
       /\ RevisionOK'
       /\ (\A c \in Boots : BootOK(c))'
       /\ (\A c \in Boots : HostOK(c))'
       /\ SourceOK'
       /\ LiveHostOwns'
    BY DEF Inv, LoseLease, row, EnteredBeforeTransfer, Sharing, RevisionOK, BootOK,
        HoldsLease, Unpublished, HostOK, Entered, SourceOK, LiveHostOwns
  <1> QED BY <1>1, <1>2 DEF Inv

(* Closing frees no lock but the boot's own.                                *)
LEMMA CloseEndsStep ==
    ASSUME Inv, NEW b \in Boots, CloseEnds(b)
    PROVE  Inv'
  <1>1. TypeOK'
    BY BoundAssumption DEF Inv, CloseEnds, At, LeaseTo, HoldsLease, Free, Fault, row,
        TypeOK
  <1>2. (\A c \in Boots : BootOK(c))'
    BY DEF Inv, CloseEnds, At, LeaseTo, HoldsLease, Free, Fault, row, TypeOK, BootOK,
        Unpublished
  <1>3. LiveHostOwns'
    BY DEF Inv, CloseEnds, At, LeaseTo, HoldsLease, Free, Fault, row, TypeOK,
        LiveHostOwns
  <1>4. /\ EnteredBeforeTransfer'
       /\ RevisionOK'
       /\ (\A c \in Boots : HostOK(c))'
       /\ SourceOK'
    BY DEF Inv, CloseEnds, row, EnteredBeforeTransfer, Sharing, RevisionOK, HostOK,
        Entered, SourceOK
  <1> QED BY <1>1, <1>2, <1>3, <1>4 DEF Inv

(* A reservation is no lease.                                               *)
LEMMA ReserveStep ==
    ASSUME Inv, NEW b \in Boots, Reserve(b)
    PROVE  Inv'
  <1>1. TypeOK'
    <2>1. CASE lock = Free
      BY <2>1 DEF Inv, Reserve, Goto, row, TypeOK
    <2>2. CASE lock # Free
      BY <2>2 DEF Inv, Reserve, Over, row, TypeOK
    <2> QED BY <2>1, <2>2
  <1>2. (\A c \in Boots : BootOK(c))'
    <2>1. CASE lock = Free
      <3> SUFFICES ASSUME NEW c \in Boots PROVE BootOK(c)'
        OBVIOUS
      <3>1. /\ boot[b].pc \in {"new", "recovered"}
            /\ boot' = [boot EXCEPT ![b].pc = "reserved"]
            /\ UNCHANGED <<fence, since>>
            /\ lock' = [by |-> b, as |-> "reservation"]
        BY <2>1 DEF Reserve, At, Goto, row
      <3>2. CASE c = b
        <4>1. boot'[c].pc = "reserved" /\ BootOK(c)
          BY <3>1, <3>2 DEF Inv, TypeOK, BootType
        <4>2. since'[c] = 0
          BY <3>1, <3>2, <4>1 DEF BootOK, Unpublished
        <4> QED BY <4>1, <4>2 DEF BootOK, Unpublished
      <3>3. CASE c # b
        <4>1. boot'[c] = boot[c] /\ BootOK(c)
          BY <3>1, <3>3 DEF Inv, TypeOK
        <4>2. \A d \in Boots : boot[d].pc \in {"host", "dead"} => boot'[d] = boot[d]
          BY <3>1 DEF Inv, TypeOK
        <4> QED BY <3>1, <4>1, <4>2 DEF BootOK, HoldsLease, Unpublished
      <3> QED BY <3>2, <3>3
    <2>2. CASE lock # Free
      BY <2>2, OverKeeps DEF Reserve, At, Over, row
    <2> QED BY <2>1, <2>2
  <1>3. (\A c \in Boots : HostOK(c))'
    BY NoneAssumption DEF Inv, Reserve, At, Free, Goto, Over, row, TypeOK, HostOK,
        Entered
  <1>4. SourceOK'
    BY DEF Inv, Reserve, At, Free, Goto, Over, row, TypeOK, SourceOK
  <1>5. LiveHostOwns'
    BY DEF Inv, Reserve, At, Free, Goto, Over, row, TypeOK, LiveHostOwns, HoldsLease
  <1>6. EnteredBeforeTransfer' /\ RevisionOK'
    BY DEF Inv, Reserve, row, EnteredBeforeTransfer, Sharing, RevisionOK
  <1> QED BY <1>1, <1>2, <1>3, <1>4, <1>5, <1>6 DEF Inv

(* Nor does it protect anything once released.                              *)
LEMMA ReleaseReservationStep ==
    ASSUME Inv, NEW b \in Boots, ReleaseReservation(b)
    PROVE  Inv'
  <1>1. TypeOK'
    BY DEF Inv, ReleaseReservation, At, Free, Goto, row, TypeOK
  <1>2. (\A c \in Boots : BootOK(c))'
    BY DEF Inv, ReleaseReservation, At, Free, Goto, row, TypeOK, BootOK, HoldsLease,
        Unpublished
  <1>3. (\A c \in Boots : HostOK(c))'
    BY DEF Inv, ReleaseReservation, At, Free, Goto, row, TypeOK, HostOK, Entered
  <1>4. SourceOK'
    BY DEF Inv, ReleaseReservation, At, Free, Goto, row, TypeOK, SourceOK
  <1>5. LiveHostOwns'
    BY DEF Inv, ReleaseReservation, At, Free, Goto, row, TypeOK, LiveHostOwns,
        HoldsLease
  <1>6. EnteredBeforeTransfer' /\ RevisionOK'
    BY DEF Inv, ReleaseReservation, row, EnteredBeforeTransfer, Sharing, RevisionOK
  <1> QED BY <1>1, <1>2, <1>3, <1>4, <1>5, <1>6 DEF Inv

(* The holder of a free lock has published nothing yet.                     *)
LEMMA TakeLeaseStep ==
    ASSUME Inv, NEW b \in Boots, TakeLease(b)
    PROVE  Inv'
  <1>1. TypeOK'
    <2>1. lock' \in {Free} \cup [by : Boots, as : {"reservation", "lease"}]
      BY DEF Inv, TakeLease, Free, TypeOK
    <2>2. lease' \in [Boots -> {"NONE", "ACTIVE", "FENCED", "CLOSING", "CLOSED"}]
      BY DEF Inv, TakeLease, LeaseTo, TypeOK
    <2>3. boot' \in BootType
      BY DEF Inv, TakeLease, Goto, Over, TypeOK, BootType
    <2> QED BY <2>1, <2>2, <2>3 DEF Inv, TakeLease, row, TypeOK, BootType
  <1>2. (\A c \in Boots : BootOK(c))'
    <2>1. CASE lock = Free
      <3>1. boot' = [boot EXCEPT ![b].pc = "leased"] /\ lock' = [by |-> b, as |-> "lease"]
            /\ boot[b].pc = "unreserved"
        BY <2>1 DEF TakeLease, At, Goto
      <3>2. \A c \in Boots : boot[c].pc = "recovering" => boot[c].resumes # b
        BY <3>1 DEF Inv, BootOK
      <3> QED BY <3>1, <3>2 DEF Inv, TakeLease, row, TypeOK, BootOK, HoldsLease, Unpublished
    <2>2. CASE lock # Free
      BY <2>2, OverKeeps DEF TakeLease, At, Over, row
    <2> QED BY <2>1, <2>2
  <1>3. (\A c \in Boots : HostOK(c))'
    BY DEF Inv, TakeLease, At, Free, LeaseTo, Goto, Over, row, TypeOK, HostOK, Entered
  <1>4. SourceOK'
    BY DEF Inv, TakeLease, At, Free, LeaseTo, Goto, Over, row, TypeOK, SourceOK
  <1>5. LiveHostOwns'
    BY DEF Inv, TakeLease, At, Free, LeaseTo, Goto, Over, row, TypeOK, LiveHostOwns,
        HoldsLease
  <1>6. EnteredBeforeTransfer' /\ RevisionOK'
    BY DEF Inv, TakeLease, row, EnteredBeforeTransfer, Sharing, RevisionOK
  <1> QED BY <1>1, <1>2, <1>3, <1>4, <1>5, <1>6 DEF Inv

(* No mutation is entered, and no other boot holds the lease.               *)
LEMMA PublishStep ==
    ASSUME Inv, NEW b \in Boots, Publish(b)
    PROVE  Inv'
  <1>1. TypeOK'
    BY DEF Inv, Publish, At, HoldsLease, ExclusiveFence, Sharing, SetFence, Goto, TypeOK
  <1>2. EnteredBeforeTransfer'
    BY DEF Inv, Publish, At, HoldsLease, ExclusiveFence, Sharing, SetFence, Goto,
        TypeOK, EnteredBeforeTransfer
  <1>3. RevisionOK'
    BY DEF Inv, Publish, At, HoldsLease, ExclusiveFence, Sharing, SetFence, Goto,
        TypeOK, RevisionOK
  <1>4. (\A c \in Boots : BootOK(c))'
    BY DEF Inv, Publish, At, HoldsLease, ExclusiveFence, Sharing, SetFence, Goto,
        TypeOK, BootOK, Unpublished
  <1>5. (\A c \in Boots : HostOK(c))'
    BY DEF Inv, Publish, At, HoldsLease, ExclusiveFence, Sharing, SetFence, Goto,
        TypeOK, HostOK, Entered
  <1>6. SourceOK'
    BY DEF Inv, Publish, At, HoldsLease, ExclusiveFence, Sharing, SetFence, Goto,
        TypeOK, SourceOK
  <1>7. LiveHostOwns'
    BY DEF Inv, Publish, At, HoldsLease, ExclusiveFence, Sharing, SetFence, Goto,
        TypeOK, LiveHostOwns
  <1> QED BY <1>1, <1>2, <1>3, <1>4, <1>5, <1>6, <1>7 DEF Inv

(* A boot becomes a Host with its token in the row.                         *)
LEMMA HandOffStep ==
    ASSUME Inv, NEW b \in Boots, HandOff(b)
    PROVE  Inv'
  <1>1. TypeOK'
    BY DEF Inv, HandOff, At, Goto, Resolve, row, TypeOK
  <1>2. (\A c \in Boots : BootOK(c))'
    BY DEF Inv, HandOff, At, Goto, Resolve, row, TypeOK, BootOK, HoldsLease, Unpublished
  <1>3. (\A c \in Boots : HostOK(c))'
    BY DEF Inv, HandOff, At, Goto, Resolve, row, TypeOK, HostOK, Entered
  <1>4. SourceOK'
    BY DEF Inv, HandOff, At, Goto, Resolve, row, TypeOK, SourceOK
  <1>5. LiveHostOwns'
    BY DEF Inv, HandOff, At, Goto, Resolve, row, TypeOK, LiveHostOwns, HoldsLease
  <1>6. EnteredBeforeTransfer' /\ RevisionOK'
    BY DEF Inv, HandOff, row, EnteredBeforeTransfer, Sharing, RevisionOK
  <1> QED BY <1>1, <1>2, <1>3, <1>4, <1>5, <1>6 DEF Inv

(* A boot that fails leaves its token behind, but not its lease.            *)
LEMMA FailBootStep ==
    ASSUME Inv, NEW b \in Boots, FailBoot(b)
    PROVE  Inv'
  <1>1. TypeOK'
    BY BoundAssumption DEF Inv, FailBoot, Fault, Over, At, CloseLease, Free, Resolve,
        row, TypeOK
  <1>2. (\A c \in Boots : BootOK(c))'
    BY DEF Inv, FailBoot, Fault, Over, At, CloseLease, Free, Resolve, row, TypeOK,
        BootOK, HoldsLease, Unpublished
  <1>3. (\A c \in Boots : HostOK(c))'
    BY DEF Inv, FailBoot, Fault, Over, At, CloseLease, Free, Resolve, row, TypeOK,
        HostOK, Entered
  <1>4. SourceOK'
    BY DEF Inv, FailBoot, Fault, Over, At, CloseLease, Free, Resolve, row, TypeOK,
        SourceOK
  <1>5. LiveHostOwns'
    BY DEF Inv, FailBoot, Fault, Over, At, CloseLease, Free, Resolve, row, TypeOK,
        LiveHostOwns, HoldsLease
  <1>6. EnteredBeforeTransfer' /\ RevisionOK'
    BY DEF Inv, FailBoot, row, EnteredBeforeTransfer, Sharing, RevisionOK
  <1> QED BY <1>1, <1>2, <1>3, <1>4, <1>5, <1>6 DEF Inv

(* A dead boot is nobody's live Host, and stays a possible source.          *)
LEMMA DieStep ==
    ASSUME Inv, NEW b \in Boots, Die(b)
    PROVE  Inv'
  <1>1. TypeOK'
    BY BoundAssumption DEF Inv, Die, Fault, LeaseTo, NoHost, row, TypeOK
  <1>2. (\A c \in Boots : BootOK(c))'
    BY DEF Inv, Die, Fault, LeaseTo, NoHost, row, TypeOK, BootOK, HoldsLease,
        Unpublished
  <1>3. (\A c \in Boots : HostOK(c))'
    BY DEF Inv, Die, Fault, LeaseTo, NoHost, row, TypeOK, HostOK, Entered
  <1>4. SourceOK'
    BY DEF Inv, Die, Fault, LeaseTo, NoHost, row, TypeOK, SourceOK
  <1>5. LiveHostOwns'
    BY DEF Inv, Die, Fault, LeaseTo, NoHost, row, TypeOK, LiveHostOwns, HoldsLease
  <1>6. EnteredBeforeTransfer' /\ RevisionOK'
    BY DEF Inv, Die, row, EnteredBeforeTransfer, Sharing, RevisionOK
  <1> QED BY <1>1, <1>2, <1>3, <1>4, <1>5, <1>6 DEF Inv

(* A Host that shuts down is terminal.                                      *)
LEMMA ShutdownStep ==
    ASSUME Inv, NEW b \in Boots, Shutdown(b)
    PROVE  Inv'
  <1>1. TypeOK'
    BY DEF Inv, Shutdown, At, Authorized, row, TypeOK
  <1>2. (\A c \in Boots : HostOK(c))'
    BY DEF Inv, Shutdown, At, Authorized, row, TypeOK, HostOK, Entered
  <1>3. LiveHostOwns'
    BY DEF Inv, Shutdown, At, Authorized, row, TypeOK, LiveHostOwns, HoldsLease
  <1>4. /\ EnteredBeforeTransfer'
       /\ RevisionOK'
       /\ (\A c \in Boots : BootOK(c))'
       /\ SourceOK'
    BY DEF Inv, Shutdown, row, EnteredBeforeTransfer, Sharing, RevisionOK, BootOK,
        HoldsLease, Unpublished, SourceOK
  <1> QED BY <1>1, <1>2, <1>3, <1>4 DEF Inv

(* The entry checks change nothing but the entry.                           *)
LEMMA CheckSourceStep ==
    ASSUME Inv, NEW b \in Boots, CheckSource(b)
    PROVE  Inv'
  <1>1. TypeOK'
    BY DEF Inv, CheckSource, At, Authorized, Entry, row, TypeOK
  <1>2. (\A c \in Boots : HostOK(c))'
    BY DEF Inv, CheckSource, At, Authorized, Entry, row, TypeOK, HostOK, Entered
  <1>3. LiveHostOwns'
    BY DEF Inv, CheckSource, At, Authorized, Entry, row, TypeOK, LiveHostOwns,
        HoldsLease
  <1>4. /\ EnteredBeforeTransfer'
       /\ RevisionOK'
       /\ (\A c \in Boots : BootOK(c))'
       /\ SourceOK'
    BY DEF Inv, CheckSource, row, EnteredBeforeTransfer, Sharing, RevisionOK, BootOK,
        HoldsLease, Unpublished, SourceOK
  <1> QED BY <1>1, <1>2, <1>3, <1>4 DEF Inv

(* A Host named by the journal is terminal, or never lets go.               *)
LEMMA EnterMaintenanceStep ==
    ASSUME Inv, NEW b \in Boots, EnterMaintenance(b)
    PROVE  Inv'
  <1>1. TypeOK'
    <2>1. CASE Entry(b, "checked", "unproven") /\ Fault
      BY <2>1, BoundAssumption DEF Inv, EnterMaintenance, Entry, Fault, row, TypeOK
    <2>2. CASE host' = [host EXCEPT ![b] = [terminal |-> TRUE, entry |-> "entered"]]
               /\ UNCHANGED faults
      BY <2>2 DEF Inv, EnterMaintenance, row, TypeOK
    <2> QED BY <2>1, <2>2 DEF EnterMaintenance
  <1>2. (\A c \in Boots : HostOK(c))'
    BY NoneAssumption DEF Inv, EnterMaintenance, At, Entry, Fault, row, TypeOK, HostOK,
        Entered
  <1>3. SourceOK'
    BY DEF Inv, EnterMaintenance, At, Entry, Fault, row, TypeOK, SourceOK
  <1>4. LiveHostOwns'
    BY DEF Inv, EnterMaintenance, At, Entry, Fault, row, TypeOK, LiveHostOwns,
        HoldsLease
  <1>5. EnteredBeforeTransfer' /\ RevisionOK' /\ (\A c \in Boots : BootOK(c))'
    BY DEF Inv, EnterMaintenance, row, EnteredBeforeTransfer, Sharing, RevisionOK,
        BootOK, HoldsLease, Unpublished
  <1> QED BY <1>1, <1>2, <1>3, <1>4, <1>5 DEF Inv

(* The revoked token is that of a terminal Host.                            *)
LEMMA LeaveMaintenanceStep ==
    ASSUME Inv, NEW b \in Boots, LeaveMaintenance(b)
    PROVE  Inv'
  <1>1. TypeOK'
    BY DEF Inv, LeaveMaintenance, At, RevokeToken, ExclusiveFence, Sharing, SetFence,
        Entry, EntryFails, TypeOK
  <1>2. EnteredBeforeTransfer'
    BY DEF Inv, LeaveMaintenance, At, RevokeToken, ExclusiveFence, Sharing, SetFence,
        Entry, EntryFails, TypeOK, EnteredBeforeTransfer
  <1>3. RevisionOK'
    BY DEF Inv, LeaveMaintenance, At, RevokeToken, ExclusiveFence, Sharing, SetFence,
        Entry, EntryFails, TypeOK, RevisionOK
  <1>4. (\A c \in Boots : BootOK(c))'
    BY NoneAssumption DEF Inv, LeaveMaintenance, At, RevokeToken, ExclusiveFence,
        Sharing, SetFence, Entry, EntryFails, TypeOK, BootOK, HoldsLease, Unpublished,
        HostOK, SourceOK, Entered, LiveHostOwns
  <1>5. (\A c \in Boots : HostOK(c))'
    BY NoneAssumption DEF Inv, LeaveMaintenance, At, RevokeToken, ExclusiveFence,
        Sharing, SetFence, Entry, EntryFails, TypeOK, HostOK, Entered
  <1>6. LiveHostOwns'
    BY DEF Inv, LeaveMaintenance, At, RevokeToken, ExclusiveFence, Sharing, SetFence,
        Entry, EntryFails, TypeOK, LiveHostOwns, HoldsLease, HostOK, BootOK, Entered,
        Unpublished
  <1>7. SourceOK'
    BY DEF Inv, LeaveMaintenance, SourceOK
  <1> QED BY <1>1, <1>2, <1>3, <1>4, <1>5, <1>6, <1>7 DEF Inv

(* Closing the lease after maintenance keeps the token gone.                *)
LEMMA RetireHostStep ==
    ASSUME Inv, NEW b \in Boots, RetireHost(b)
    PROVE  Inv'
  <1>1. TypeOK'
    BY DEF Inv, RetireHost, At, CloseLease, row, TypeOK
  <1>2. (\A c \in Boots : HostOK(c))'
    BY DEF Inv, RetireHost, At, CloseLease, row, TypeOK, HostOK, Entered
  <1>3. LiveHostOwns'
    BY DEF Inv, RetireHost, At, CloseLease, row, TypeOK, LiveHostOwns, HoldsLease
  <1>4. /\ EnteredBeforeTransfer'
       /\ RevisionOK'
       /\ (\A c \in Boots : BootOK(c))'
       /\ SourceOK'
    BY DEF Inv, RetireHost, row, EnteredBeforeTransfer, Sharing, RevisionOK, BootOK,
        HoldsLease, Unpublished, SourceOK
  <1> QED BY <1>1, <1>2, <1>3, <1>4 DEF Inv

(* A window opens after its source has lost the token.                      *)
LEMMA OpenWindowStep ==
    ASSUME Inv, NEW b \in Boots, OpenWindow(b)
    PROVE  Inv'
  <1>1. TypeOK'
    BY DEF Inv, OpenWindow, At, row, TypeOK
  <1>2. (\A c \in Boots : BootOK(c))'
    BY DEF Inv, OpenWindow, At, row, TypeOK, BootOK, HoldsLease, Unpublished, HostOK,
        SourceOK, Entered, LiveHostOwns
  <1>3. (\A c \in Boots : HostOK(c))'
    BY DEF Inv, OpenWindow, At, row, TypeOK, HostOK, Entered
  <1>4. SourceOK'
    BY DEF Inv, OpenWindow, At, row, TypeOK, SourceOK
  <1>5. LiveHostOwns'
    BY DEF Inv, OpenWindow, At, row, TypeOK, LiveHostOwns, HoldsLease
  <1>6. EnteredBeforeTransfer' /\ RevisionOK'
    BY DEF Inv, OpenWindow, row, EnteredBeforeTransfer, Sharing, RevisionOK
  <1> QED BY <1>1, <1>2, <1>3, <1>4, <1>5, <1>6 DEF Inv

(* A stopped installation has no source.                                    *)
LEMMA FinishStopStep ==
    ASSUME Inv, NEW b \in Boots, FinishStop(b)
    PROVE  Inv'
  <1>1. TypeOK'
    BY DEF Inv, FinishStop, At, Resolve, Over, row, TypeOK
  <1>2. (\A c \in Boots : BootOK(c))'
    BY DEF Inv, FinishStop, At, Resolve, Over, row, TypeOK, BootOK, HoldsLease,
        Unpublished
  <1>3. (\A c \in Boots : HostOK(c))'
    BY DEF Inv, FinishStop, At, Resolve, Over, row, TypeOK, HostOK, Entered
  <1>4. SourceOK'
    BY DEF Inv, FinishStop, At, Resolve, Over, row, TypeOK, SourceOK
  <1>5. LiveHostOwns'
    BY DEF Inv, FinishStop, At, Resolve, Over, row, TypeOK, LiveHostOwns, HoldsLease
  <1>6. EnteredBeforeTransfer' /\ RevisionOK'
    BY DEF Inv, FinishStop, row, EnteredBeforeTransfer, Sharing, RevisionOK
  <1> QED BY <1>1, <1>2, <1>3, <1>4, <1>5, <1>6 DEF Inv

(* The recovery holds the lock that its source has lost.                    *)
LEMMA RecoverStep ==
    ASSUME Inv, NEW b \in Boots, Recover(b)
    PROVE  Inv'
  <1>1. TypeOK'
    <2>1. lock' \in {Free} \cup [by : Boots, as : {"reservation", "lease"}]
      BY DEF Inv, Recover, Free, TypeOK
    <2>2. lease' \in [Boots -> {"NONE", "ACTIVE", "FENCED", "CLOSING", "CLOSED"}]
      BY DEF Inv, Recover, LeaseTo, TypeOK
    <2>3. boot' \in BootType
      BY DEF Inv, Recover, Over, TypeOK, BootType
    <2> QED BY <2>1, <2>2, <2>3 DEF Inv, Recover, row, TypeOK, BootType
  <1>2. (\A c \in Boots : BootOK(c))'
    <2>1. CASE lock = Free
      <3>1. source \in Boots /\ boot[source].pc \in {"host", "dead"}
        BY DEF Inv, Recover, SourceOK, TypeOK
      <3>2. boot' = [boot EXCEPT ![b] = [pc |-> "recovering", resumes |-> source]]
            /\ lock' = [by |-> b, as |-> "lease"] /\ source # b
        BY <2>1, <3>1 DEF Recover, At
      <3> QED BY <3>1, <3>2 DEF Inv, Recover, At, row, TypeOK, BootOK, HoldsLease, Unpublished
    <2>2. CASE lock # Free
      BY <2>2, OverKeeps DEF Recover, At, Over, row
    <2> QED BY <2>1, <2>2
  <1>3. (\A c \in Boots : HostOK(c))'
    BY DEF Inv, Recover, At, Free, LeaseTo, Over, row, TypeOK, HostOK, Entered
  <1>4. SourceOK'
    BY DEF Inv, Recover, At, Free, LeaseTo, Over, row, TypeOK, SourceOK
  <1>5. LiveHostOwns'
    BY DEF Inv, Recover, At, Free, LeaseTo, Over, row, TypeOK, LiveHostOwns, HoldsLease
  <1>6. EnteredBeforeTransfer' /\ RevisionOK'
    BY DEF Inv, Recover, row, EnteredBeforeTransfer, Sharing, RevisionOK
  <1> QED BY <1>1, <1>2, <1>3, <1>4, <1>5, <1>6 DEF Inv

(* The revoked token is that of a source without a lease.                   *)
LEMMA RecoveryRevokesStep ==
    ASSUME Inv, NEW b \in Boots, RecoveryRevokes(b)
    PROVE  Inv'
  <1>1. TypeOK'
    BY DEF Inv, RecoveryRevokes, At, RevokeToken, ExclusiveFence, Sharing, SetFence,
        Goto, CloseLease, TypeOK
  <1>2. EnteredBeforeTransfer'
    BY DEF Inv, RecoveryRevokes, At, RevokeToken, ExclusiveFence, Sharing, SetFence,
        Goto, CloseLease, TypeOK, EnteredBeforeTransfer
  <1>3. RevisionOK'
    BY DEF Inv, RecoveryRevokes, At, RevokeToken, ExclusiveFence, Sharing, SetFence,
        Goto, CloseLease, TypeOK, RevisionOK
  <1>4. (\A c \in Boots : BootOK(c))'
    BY NoneAssumption DEF Inv, RecoveryRevokes, At, RevokeToken, ExclusiveFence,
        Sharing, SetFence, Goto, CloseLease, TypeOK, BootOK, HoldsLease, Unpublished,
        HostOK, SourceOK, Entered, LiveHostOwns
  <1>5. (\A c \in Boots : HostOK(c))'
    BY NoneAssumption DEF Inv, RecoveryRevokes, At, RevokeToken, ExclusiveFence,
        Sharing, SetFence, Goto, CloseLease, TypeOK, HostOK, Entered
  <1>6. SourceOK'
    BY DEF Inv, RecoveryRevokes, At, RevokeToken, ExclusiveFence, Sharing, SetFence,
        Goto, CloseLease, TypeOK, SourceOK
  <1>7. LiveHostOwns'
    BY DEF Inv, RecoveryRevokes, At, RevokeToken, ExclusiveFence, Sharing, SetFence,
        Goto, CloseLease, TypeOK, LiveHostOwns, HoldsLease, HostOK, BootOK, Entered,
        Unpublished
  <1> QED BY <1>1, <1>2, <1>3, <1>4, <1>5, <1>6, <1>7 DEF Inv

(* Nothing gives the source its token back.                                 *)
LEMMA RecoveredStep ==
    ASSUME Inv, NEW b \in Boots, Recovered(b)
    PROVE  Inv'
  <1>1. TypeOK'
    BY DEF Inv, Recovered, At, Goto, row, TypeOK
  <1>2. (\A c \in Boots : BootOK(c))'
    BY DEF Inv, Recovered, At, Goto, row, TypeOK, BootOK, HoldsLease, Unpublished
  <1>3. (\A c \in Boots : HostOK(c))'
    BY DEF Inv, Recovered, At, Goto, row, TypeOK, HostOK, Entered
  <1>4. SourceOK'
    BY DEF Inv, Recovered, At, Goto, row, TypeOK, SourceOK
  <1>5. LiveHostOwns'
    BY DEF Inv, Recovered, At, Goto, row, TypeOK, LiveHostOwns, HoldsLease
  <1>6. EnteredBeforeTransfer' /\ RevisionOK'
    BY DEF Inv, Recovered, row, EnteredBeforeTransfer, Sharing, RevisionOK
  <1> QED BY <1>1, <1>2, <1>3, <1>4, <1>5, <1>6 DEF Inv

(* Every action of Next.                                                    *)
LEMMA NextInv == Inv /\ [Next]_vars => Inv'
<1> SUFFICES ASSUME Inv, [Next]_vars PROVE Inv'
  OBVIOUS
<1>1. ASSUME NEW t \in Tx, TxNext(t) PROVE Inv'
  BY <1>1, LockFenceStep, VerifyFenceStep, SendCommitStep, ServerCommitsStep, RollbackStep
     DEF TxNext
<1>2. ASSUME NEW b \in Boots, BootNext(b) PROVE Inv'
  <2>1. CASE Reserve(b) \/ ReleaseReservation(b) \/ TakeLease(b) \/ Publish(b) \/ HandOff(b)
    BY <2>1, ReserveStep, ReleaseReservationStep, TakeLeaseStep, PublishStep, HandOffStep
  <2>2. CASE FailBoot(b) \/ Die(b) \/ LoseLease(b) \/ CloseEnds(b)
    BY <2>2, FailBootStep, DieStep, LoseLeaseStep, CloseEndsStep
  <2>3. CASE Shutdown(b) \/ CheckSource(b) \/ EnterMaintenance(b) \/ LeaveMaintenance(b)
    BY <2>3, ShutdownStep, CheckSourceStep, EnterMaintenanceStep, LeaveMaintenanceStep
  <2>4. CASE RetireHost(b) \/ OpenWindow(b) \/ FinishStop(b)
    BY <2>4, RetireHostStep, OpenWindowStep, FinishStopStep
  <2>5. CASE Recover(b) \/ RecoveryRevokes(b) \/ Recovered(b)
    BY <2>5, RecoverStep, RecoveryRevokesStep, RecoveredStep
  <2> QED BY <1>2, <2>1, <2>2, <2>3, <2>4, <2>5 DEF BootNext
<1>3. CASE UNCHANGED vars
  BY <1>3 DEF vars, row, Inv, TypeOK, EnteredBeforeTransfer, Sharing, RevisionOK, BootOK,
        HoldsLease, HostOK, SourceOK, LiveHostOwns
<1> QED BY <1>1, <1>2, <1>3, ServerDropsStep DEF Next

(* An installation without a Host satisfies it.                             *)
LEMMA InitInv == Init => Inv
  BY NoneAssumption, BoundAssumption DEF Init, Inv, TypeOK, EnteredBeforeTransfer, Sharing, RevisionOK,
        BootOK, Unpublished, HoldsLease, HostOK, Entered, SourceOK, LiveHostOwns, Free, NoHost, IdleTx

(* The fence, the lock and the phases agree, whatever fails when.            *)
THEOREM Invariance == Spec => []Inv
  BY InitInv, NextInv, PTL DEF Spec

(* Type correctness of the hand-off, maintenance and the mutations.         *)
THEOREM TypeCorrect == Spec => []TypeOK
<1>1. Inv => TypeOK
  BY DEF Inv
<1> QED BY <1>1, Invariance, PTL

(* HOST-003: no publication and no revocation of a token overtakes a        *)
(* mutation that passed the fence.                                          *)
THEOREM EnteredSafe == Spec => []EnteredBeforeTransfer
<1>1. Inv => EnteredBeforeTransfer
  BY DEF Inv
<1> QED BY <1>1, Invariance, PTL

(* HOST-001: the token of a live Host that keeps its lease is its own.      *)
THEOREM LiveOwns == Spec => []LiveHostOwns
<1>1. Inv => LiveHostOwns
  BY DEF Inv
<1> QED BY <1>1, Invariance, PTL

(* MAINT-004: the source of a maintenance operation has lost its token      *)
(* before its window opens or a Host is acquired again.                     *)
THEOREM WindowSafe == Spec => []WindowAfterRevocation
<1>1. Inv => WindowAfterRevocation
  BY DEF Inv, BootOK, WindowAfterRevocation, At
<1> QED BY <1>1, Invariance, PTL

------------------------------------------------------------------------------
(* Refinement: only three kinds of step touch the abstract store.           *)

(* A publication makes a boot owner that never was one.                     *)
LEMMA PublishRefines ==
    ASSUME Inv, NEW b \in Boots, Publish(b)
    PROVE  Store!Next
  <1>1. Store!Publish(b)
    BY DEF Inv, Publish, At, SetFence, TypeOK, BootOK, Unpublished, Store!Publish
  <1> QED BY <1>1 DEF Store!Next

(* A revocation is the abstract one, or finds nothing to revoke.            *)
LEMMA RevocationRefines ==
    ASSUME Inv, NEW b \in Boots, LeaveMaintenance(b) \/ RecoveryRevokes(b)
    PROVE  [Store!Next]_Store!vars
  <1>1. CASE UNCHANGED fence
    BY <1>1 DEF LeaveMaintenance, RecoveryRevokes, Store!vars
  <1>2. CASE fence.token = b /\ LeaveMaintenance(b) /\ SetFence(None)
    <2>1. Store!Revoke
      BY <1>2, NoneAssumption DEF LeaveMaintenance, SetFence, Store!Revoke
    <2> QED BY <2>1 DEF Store!Next
  <1>3. CASE fence.token = boot[b].resumes /\ RecoveryRevokes(b) /\ SetFence(None)
    <2>1. boot[b].resumes \in Boots
      BY <1>3 DEF Inv, RecoveryRevokes, At, BootOK
    <2>2. Store!Revoke
      BY <1>3, <2>1, NoneAssumption DEF RecoveryRevokes, SetFence, Store!Revoke
    <2> QED BY <2>2 DEF Store!Next
  <1> QED BY <1>1, <1>2, <1>3 DEF LeaveMaintenance, RecoveryRevokes, RevokeToken

(* What a COMMIT applies is the write of the owner, at its revision.        *)
LEMMA CommitRefines ==
    ASSUME Inv, NEW t \in Tx, ServerCommits(t)
    PROVE  Store!Next
  <1> DEFINE b == tx[t].by
  <1>1. b \in Boots /\ fence.token = b
    BY DEF Inv, ServerCommits, TypeOK, IdleTx, EnteredBeforeTransfer, Sharing
  <1>2. since[b] = fence.revision
    BY <1>1, NoneAssumption DEF Inv, RevisionOK
  <1>3. Store!Write(b)
    BY <1>1, <1>2 DEF ServerCommits, row, Store!Write
  <1> QED BY <1>1, <1>3 DEF Store!Next

(* Every other step leaves the store as it is.                              *)
LEMMA StepRefines == Inv /\ [Next]_vars => [Store!Next]_Store!vars
<1> SUFFICES ASSUME Inv, [Next]_vars PROVE [Store!Next]_Store!vars
  OBVIOUS
<1>1. ASSUME NEW t \in Tx, TxNext(t) PROVE [Store!Next]_Store!vars
  <2>1. CASE ServerCommits(t)
    BY <2>1, CommitRefines
  <2>2. CASE ~ServerCommits(t)
    <3>1. UNCHANGED <<fence, since, writes>>
      BY <1>1, <2>2 DEF TxNext, LockFence, VerifyFence, SendCommit, Rollback, row
    <3> QED BY <3>1 DEF Store!vars
  <2> QED BY <2>1, <2>2
<1>2. ASSUME NEW b \in Boots, BootNext(b) PROVE [Store!Next]_Store!vars
  <2>1. CASE Publish(b)
    BY <2>1, PublishRefines
  <2>2. CASE LeaveMaintenance(b) \/ RecoveryRevokes(b)
    BY <2>2, RevocationRefines
  <2>3. CASE ~Publish(b) /\ ~LeaveMaintenance(b) /\ ~RecoveryRevokes(b)
    <3>1. UNCHANGED <<fence, since, writes>>
      BY <1>2, <2>3 DEF BootNext, Reserve, ReleaseReservation, TakeLease, HandOff, FailBoot, Die,
            LoseLease, CloseEnds, Shutdown, CheckSource, EnterMaintenance, RetireHost,
            OpenWindow, FinishStop, Recover, Recovered, row
    <3> QED BY <3>1 DEF Store!vars
  <2> QED BY <2>1, <2>2, <2>3
<1>3. CASE ServerDrops \/ UNCHANGED vars
  BY <1>3 DEF ServerDrops, vars, row, Store!vars
<1> QED BY <1>1, <1>2, <1>3 DEF Next

(* HOST-001 to HOST-004: the lock, the fence row and the checks of every    *)
(* service implement one store with one owner at a time.                    *)
THEOREM Implements == Spec => ImplementsStore
<1>1. Init => Store!Init
  BY DEF Init, Store!Init
<1> QED BY <1>1, StepRefines, Invariance, PTL DEF Spec, Store!Spec, ImplementsStore

(* The token is safe from publication to recovery.                          *)
THEOREM FenceSafe == Spec => []FenceHolds
<1>1. TypeOK /\ EnteredBeforeTransfer /\ LiveHostOwns /\ WindowAfterRevocation => FenceHolds
  BY DEF FenceHolds
<1> QED BY TypeCorrect, EnteredSafe, LiveOwns, WindowSafe, <1>1, PTL
=============================================================================
