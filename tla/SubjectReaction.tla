---------------------------- MODULE SubjectReaction ----------------------------
(***************************************************************************)
(* packages/product/messaging and packages/product/subject: one            *)
(* conversation, the messages accepted into it, the Reactions that decide  *)
(* whether to answer them, and the replies.                                *)
(*                                                                         *)
(*   authority   desired state and revision of the Subject                 *)
(*   mailbox     conversation_mailbox: revision, consumed cursor, open     *)
(*   facts, last message_fact rows; the conversation's last_sequence       *)
(*   reaction    the reaction table                                        *)
(*   commit      communication_commit: the content accepted per reaction   *)
(*   item        the WorkItem of each accepted message                     *)
(*   attempt     the handler running for an item: what it has read so far  *)
(*   sender      a client's acceptInbound call: 0, or the authority        *)
(*               revision its preparation read                             *)
(*   decided     history: the messages each accepted decision considered   *)
(*   under       history: the authority revision a message arrived under   *)
(*                                                                         *)
(* Every transaction locks the rows it decides on, so it is one step;      *)
(* steps end where the code awaits a model, another transaction or an      *)
(* unlocked read.  The unique indexes on message_fact are left out: the    *)
(* locks alone are shown to suffice.  A WorkItem is identified by the      *)
(* message that created it (authority.ts:309-322).                         *)
(***************************************************************************)
EXTENDS Integers, FiniteSets

CONSTANTS
    Messages,       \* clientMessageIds
    Reactions,      \* ReactionIds to draw from
    Contents,       \* semantic contents the primary model may propose
    None,           \* no reaction, no content
    Concurrency,    \* attempts of one conversation the queue runs at once
    FaultKinds,     \* how an attempt may end without an outcome
    MaxRevision,    \* bound: authority revisions
    MaxFaults       \* bound: attempts that end without an outcome

ASSUME NoneAssumption ==
    None \notin Reactions \cup Contents \cup [to : SUBSET Messages, content : Contents]
ASSUME FaultAssumption == FaultKinds \subseteq {"RETRY", "TERMINAL"}
ASSUME BoundAssumption ==
    Concurrency \in Nat \ {0} /\ MaxRevision \in Nat \ {0} /\ MaxFaults \in Nat

VARIABLES authority, mailbox, facts, last, reaction, commit,
          item, attempt, sender, decided, under, faults

subject == <<authority, reaction, commit, decided>>
conversation == <<facts, last, under>>
vars == <<authority, mailbox, facts, last, reaction, commit,
          item, attempt, sender, decided, under, faults>>

ReactionStates ==
    {"ABSENT", "OPEN", "SUPERSEDED", "NO_COMMUNICATION", "COMMUNICATION_COMMITTED", "REPLIED"}
InProgress == {"OPEN", "COMMUNICATION_COMMITTED"}

------------------------------------------------------------------------------
(* Message facts *)

Fact(n, direction, of) == [sequence |-> n, direction |-> direction, of |-> of]

PendingInbound(after) == {f \in facts : f.direction = "INBOUND" /\ f.sequence > after}
MessagesOf(S) == {f.of : f \in S}
Accepted(m) == \E f \in facts : f.direction = "INBOUND" /\ f.of = m
OutboundExists(r) == \E f \in facts : f.direction = "OUTBOUND" /\ f.of = r

AppendFact(direction, of) ==
    /\ last' = last + 1
    /\ facts' = facts \cup {Fact(last + 1, direction, of)}

------------------------------------------------------------------------------
(* Attempts *)

Idle == [pc |-> "idle", reaction |-> None, seen |-> "ABSENT", context |-> {},
         proposal |-> None, outbound |-> FALSE]

Running == {i \in Messages : attempt[i].pc # "idle"}
At(i, pc) == attempt[i].pc = pc
Goto(i, pc) == attempt' = [attempt EXCEPT ![i].pc = pc]
OwnedBy(i) == {r \in Reactions : reaction[r].state # "ABSENT" /\ reaction[r].owner = i}

Current(r) ==
    /\ authority.desired = "RUNNING"
    /\ authority.revision = reaction[r].authority

Init ==
    /\ authority = [desired |-> "STOPPED", revision |-> 1]
    /\ mailbox = [revision |-> 0, consumed |-> 0, open |-> None]
    /\ facts = {} /\ last = 0
    /\ reaction = [r \in Reactions |->
                     [state |-> "ABSENT", mailbox |-> 0, through |-> 0,
                      authority |-> 0, owner |-> None]]
    /\ commit = [r \in Reactions |-> None]
    /\ item = [m \in Messages |-> "NONE"]
    /\ attempt = [m \in Messages |-> Idle]
    /\ sender = [m \in Messages |-> 0]
    /\ decided = [r \in Reactions |-> {}]
    /\ under = [m \in Messages |-> 0]
    /\ faults = 0

------------------------------------------------------------------------------
(* Subject.start and Subject.stop; a call with a stale expected revision   *)
(* throws and changes nothing.                                             *)
SetDesiredState(desired) ==
    /\ authority.revision < MaxRevision
    /\ authority.desired # desired
    /\ authority' = [desired |-> desired, revision |-> authority.revision + 1]
    /\ UNCHANGED <<mailbox, conversation, reaction, commit, decided,
                   item, attempt, sender, faults>>

(* The preparation of acceptInbound reads the authority without a lock.    *)
PrepareInbound(m) ==
    /\ authority.desired = "RUNNING"
    /\ sender' = [sender EXCEPT ![m] = authority.revision]
    /\ UNCHANGED <<subject, mailbox, conversation, item, attempt, faults>>

Admissible(m) == authority.desired = "RUNNING" /\ authority.revision = sender[m]

(* Mutant: no WorkItem when another one is still to run. *)
AcceptInboundQuietly(m) ==
    /\ sender[m] # 0
    /\ ~ Accepted(m)
    /\ Admissible(m)
    /\ sender' = [sender EXCEPT ![m] = 0]
    /\ AppendFact("INBOUND", m)
    /\ mailbox' = [mailbox EXCEPT !.revision = @ + 1]
    /\ item' = IF \E i \in Messages : item[i] = "READY" THEN item
               ELSE [item EXCEPT ![m] = "READY"]
    /\ under' = [under EXCEPT ![m] = authority.revision]
    /\ UNCHANGED <<subject, attempt, faults>>

AcceptInbound(m) ==
    /\ sender[m] # 0
    /\ ~ Accepted(m)
    /\ Admissible(m)
    /\ sender' = [sender EXCEPT ![m] = 0]
    /\ AppendFact("INBOUND", m)
    /\ mailbox' = [mailbox EXCEPT !.revision = @ + 1]
    /\ item' = [item EXCEPT ![m] = "READY"]
    /\ under' = [under EXCEPT ![m] = authority.revision]
    /\ UNCHANGED <<subject, attempt, faults>>

(* A repeated clientMessageId answers EXISTING; a stale preparation throws. *)
AcceptNothing(m) ==
    /\ sender[m] # 0
    /\ Accepted(m) \/ ~ Admissible(m)
    /\ sender' = [sender EXCEPT ![m] = 0]
    /\ UNCHANGED <<subject, mailbox, conversation, item, attempt, faults>>

------------------------------------------------------------------------------
(* processReaction: acquireReaction *)

CanStart(i) ==
    /\ item[i] = "READY"
    /\ At(i, "idle")
    /\ Cardinality(Running) < Concurrency

Begin(i, r, seen) ==
    attempt' = [attempt EXCEPT ![i].pc = "progress", ![i].reaction = r, ![i].seen = seen]

ReactionTo(r, state) == reaction' = [reaction EXCEPT ![r].state = state]
Release(r) == mailbox' = [mailbox EXCEPT !.open = IF @ = r THEN None ELSE @]

(* Mutant: the cursor moves to the end of the conversation. *)
AdvanceToEnd(r) ==
    mailbox' = [mailbox EXCEPT !.consumed = last, !.open = IF @ = r THEN None ELSE @]

Advance(r) ==
    mailbox' = [mailbox EXCEPT
        !.consumed = IF @ < reaction[r].through THEN reaction[r].through ELSE @,
        !.open = IF @ = r THEN None ELSE @]

(* Only an OPEN reaction is ever superseded (repository.ts:813-828). *)
Supersede(r) ==
    /\ ReactionTo(r, IF reaction[r].state = "OPEN" THEN "SUPERSEDED" ELSE reaction[r].state)
    /\ Release(r)

AcquireOwned(i, r) ==
    /\ CanStart(i)
    /\ r \in OwnedBy(i)
    /\ ~ (reaction[r].state = "OPEN" /\ ~ Current(r))
    /\ Begin(i, r, reaction[r].state)
    /\ UNCHANGED <<subject, mailbox, conversation, item, sender, faults>>

AcquireStale(i, r) ==
    /\ CanStart(i)
    /\ r \in OwnedBy(i)
    /\ reaction[r].state = "OPEN" /\ ~ Current(r)
    /\ Supersede(r)
    /\ Begin(i, r, "SUPERSEDED")
    /\ UNCHANGED <<authority, commit, decided, conversation, item, sender, faults>>

OpenReaction ==
    {r \in Reactions : mailbox.open = r /\ reaction[r].state \in InProgress}

AcquireOpen(i, r) ==
    /\ CanStart(i)
    /\ OwnedBy(i) = {}
    /\ authority.desired = "RUNNING"
    /\ r \in OpenReaction
    /\ Begin(i, r, reaction[r].state)
    /\ UNCHANGED <<subject, mailbox, conversation, item, sender, faults>>

AcquireNew(i, r) ==
    /\ CanStart(i)
    /\ OwnedBy(i) = {}
    /\ authority.desired = "RUNNING"
    /\ OpenReaction = {}
    /\ i \in MessagesOf(PendingInbound(mailbox.consumed))
    /\ reaction[r].state = "ABSENT"
    /\ \E f \in PendingInbound(mailbox.consumed) :
          /\ \A g \in PendingInbound(mailbox.consumed) : g.sequence <= f.sequence
          /\ reaction' = [reaction EXCEPT ![r] =
               [state |-> "OPEN", mailbox |-> mailbox.revision, through |-> f.sequence,
                authority |-> authority.revision, owner |-> i]]
    /\ mailbox' = [mailbox EXCEPT !.open = r]
    /\ Begin(i, r, "OPEN")
    /\ UNCHANGED <<authority, commit, decided, conversation, item, sender, faults>>

(* NOOP: nothing to react to.  A dangling open reference is still cleared. *)
AcquireNothing(i) ==
    /\ CanStart(i)
    /\ OwnedBy(i) = {}
    /\ \/ /\ authority.desired # "RUNNING"
          /\ mailbox' = mailbox
       \/ /\ authority.desired = "RUNNING"
          /\ OpenReaction = {}
          /\ i \notin MessagesOf(PendingInbound(mailbox.consumed))
          /\ mailbox' = [mailbox EXCEPT !.open = None]
    /\ Goto(i, "finish")
    /\ UNCHANGED <<subject, conversation, item, sender, faults>>

(* Mutant: a commit found on re-entry is taken for done. *)
ProgressOnceCommitted(i) ==
    IF OutboundExists(attempt[i].reaction) THEN "finalize"
    ELSE IF attempt[i].seen = "OPEN" THEN "decide" ELSE "finish"

(* readProgress is a second transaction; the row state is the one acquired. *)
Progress(i) ==
    LET r == attempt[i].reaction
        seen == attempt[i].seen
    IN  IF OutboundExists(r) THEN "finalize"
        ELSE IF seen \in {"NO_COMMUNICATION", "SUPERSEDED"} THEN "finish"
        ELSE IF commit[r] # None THEN "express"
        ELSE IF seen = "OPEN" THEN "decide" ELSE "invalid"

ReadProgress(i) ==
    /\ At(i, "progress")
    /\ Progress(i) # "invalid"
    /\ Goto(i, Progress(i))
    /\ UNCHANGED <<subject, mailbox, conversation, item, sender, faults>>

------------------------------------------------------------------------------
(* primaryGeneration: the projection is read without a lock, the model     *)
(* answers NO_COMMUNICATION (None) or a content.                           *)
Generate(i) ==
    /\ At(i, "decide")
    /\ \E proposal \in Contents \cup {None} :
          attempt' = [attempt EXCEPT ![i].pc = "commit",
             ![i].proposal = proposal,
             ![i].context = MessagesOf({f \in PendingInbound(mailbox.consumed) :
                               f.sequence <= reaction[attempt[i].reaction].through})]
    /\ UNCHANGED <<subject, mailbox, conversation, item, sender, faults>>

(* Mutant: the mailbox revision is not compared. *)
FreshIgnoringMailbox(r) == Current(r) /\ mailbox.open = r

(* The review's fences, on rows locked by the committing transaction. *)
Fresh(r) ==
    /\ Current(r)
    /\ mailbox.revision = reaction[r].mailbox
    /\ mailbox.open = r

CommitSuperseded(i) ==
    LET r == attempt[i].reaction IN
    /\ At(i, "commit")
    /\ reaction[r].state = "OPEN"
    /\ ~ Fresh(r)
    /\ Supersede(r)
    /\ Goto(i, "finish")
    /\ UNCHANGED <<authority, commit, decided, conversation, item, sender, faults>>

CommitSilence(i) ==
    LET r == attempt[i].reaction IN
    /\ At(i, "commit")
    /\ reaction[r].state = "OPEN"
    /\ Fresh(r)
    /\ attempt[i].proposal = None
    /\ Advance(r)
    /\ ReactionTo(r, "NO_COMMUNICATION")
    /\ decided' = [decided EXCEPT ![r] = attempt[i].context]
    /\ Goto(i, "finish")
    /\ UNCHANGED <<authority, commit, conversation, item, sender, faults>>

CommitCommunication(i) ==
    LET r == attempt[i].reaction IN
    /\ At(i, "commit")
    /\ reaction[r].state = "OPEN"
    /\ Fresh(r)
    /\ attempt[i].proposal # None
    /\ commit' = [commit EXCEPT ![r] = IF @ = None THEN attempt[i].proposal ELSE @]
    /\ ReactionTo(r, "COMMUNICATION_COMMITTED")
    /\ decided' = [decided EXCEPT ![r] = attempt[i].context]
    /\ Goto(i, "express")
    /\ UNCHANGED <<authority, mailbox, conversation, item, sender, faults>>

(* Another attempt decided this reaction first: its decision stands. *)
CommitAlreadyDecided(i) ==
    LET r == attempt[i].reaction IN
    /\ At(i, "commit")
    /\ \/ reaction[r].state \in {"SUPERSEDED", "NO_COMMUNICATION"} /\ Goto(i, "finish")
       \/ reaction[r].state \in {"COMMUNICATION_COMMITTED", "REPLIED"} /\ Goto(i, "express")
    /\ UNCHANGED <<subject, mailbox, conversation, item, sender, faults>>

------------------------------------------------------------------------------
(* completeCommunication.  The transaction of materializeExpression reads  *)
(* outboundExists before it locks the reaction.                            *)
Express(i) ==
    /\ At(i, "express")
    /\ attempt' = [attempt EXCEPT ![i].pc = "materialize",
                     ![i].outbound = OutboundExists(attempt[i].reaction)]
    /\ UNCHANGED <<subject, mailbox, conversation, item, sender, faults>>

(* Mutant: only the unlocked read decides whether to reply. *)
MaterializeUnlocked(i) ==
    LET r == attempt[i].reaction IN
    /\ At(i, "materialize")
    /\ IF attempt[i].outbound THEN UNCHANGED <<facts, last>> ELSE AppendFact("OUTBOUND", r)
    /\ Advance(r)
    /\ ReactionTo(r, "REPLIED")
    /\ Goto(i, "finish")
    /\ UNCHANGED <<authority, commit, decided, under, item, sender, faults>>

Materialize(i) ==
    LET r == attempt[i].reaction IN
    /\ At(i, "materialize")
    /\ reaction[r].state = "COMMUNICATION_COMMITTED"
    /\ IF attempt[i].outbound \/ OutboundExists(r)
       THEN UNCHANGED <<facts, last>>
       ELSE AppendFact("OUTBOUND", r)
    /\ Advance(r)
    /\ ReactionTo(r, "REPLIED")
    /\ Goto(i, "finish")
    /\ UNCHANGED <<authority, commit, decided, under, item, sender, faults>>

MaterializedBefore(i) ==
    /\ At(i, "materialize")
    /\ reaction[attempt[i].reaction].state = "REPLIED"
    /\ Goto(i, "finish")
    /\ UNCHANGED <<subject, mailbox, conversation, item, sender, faults>>

(* finalizeReplied, when the outbound fact was found on re-entry. *)
FinalizeReplied(i) ==
    LET r == attempt[i].reaction IN
    /\ At(i, "finalize")
    /\ \/ reaction[r].state = "REPLIED" /\ UNCHANGED <<mailbox, reaction>>
       \/ reaction[r].state = "COMMUNICATION_COMMITTED" /\ Advance(r) /\ ReactionTo(r, "REPLIED")
    /\ Goto(i, "finish")
    /\ UNCHANGED <<authority, commit, decided, conversation, item, sender, faults>>

Finish(i) ==
    /\ At(i, "finish")
    /\ item' = [item EXCEPT ![i] = "SUCCEEDED"]
    /\ attempt' = [attempt EXCEPT ![i] = Idle]
    /\ UNCHANGED <<subject, mailbox, conversation, sender, faults>>

(* A throw that the classifier retries, or the death of the Host, leaves   *)
(* the item to a later attempt; any other throw ends it.  The transaction  *)
(* of the step before may have committed: its answer was lost.             *)
EndWithoutOutcome(i, kind) ==
    /\ ~ At(i, "idle")
    /\ faults < MaxFaults
    /\ faults' = faults + 1
    /\ item' = [item EXCEPT ![i] = IF kind = "TERMINAL" THEN "FAILED" ELSE "READY"]
    /\ attempt' = [attempt EXCEPT ![i] = Idle]
    /\ UNCHANGED <<subject, mailbox, conversation, sender>>

------------------------------------------------------------------------------
Acquire(i) ==
    \/ \E r \in Reactions : AcquireOwned(i, r) \/ AcquireStale(i, r)
    \/ \E r \in Reactions : AcquireOpen(i, r) \/ AcquireNew(i, r)
    \/ AcquireNothing(i)

CommitAcceptedProposal(i) ==
    \/ CommitSuperseded(i)
    \/ CommitSilence(i)
    \/ CommitCommunication(i)
    \/ CommitAlreadyDecided(i)

CompleteCommunication(i) ==
    Express(i) \/ Materialize(i) \/ MaterializedBefore(i) \/ FinalizeReplied(i)

Handle(i) ==
    \/ Acquire(i)
    \/ ReadProgress(i)
    \/ Generate(i)
    \/ CommitAcceptedProposal(i)
    \/ CompleteCommunication(i)
    \/ Finish(i)

Next ==
    \/ \E desired \in {"STOPPED", "RUNNING"} : SetDesiredState(desired)
    \/ \E m \in Messages : PrepareInbound(m) \/ AcceptInbound(m) \/ AcceptNothing(m)
    \/ \E i \in Messages : Handle(i)
    \/ \E i \in Messages, kind \in FaultKinds : EndWithoutOutcome(i, kind)

Spec == Init /\ [][Next]_vars

(* The queue starts every ready item and every started attempt goes on;    *)
(* clients, operators and faults owe nothing.                              *)
FairSpec == Spec /\ \A i \in Messages : WF_vars(Handle(i))

------------------------------------------------------------------------------
(* Types *)
Reaction == [state : ReactionStates, mailbox : Nat, through : Nat,
             authority : Nat, owner : Messages \cup {None}]
Attempt == [pc : {"idle", "progress", "decide", "commit", "express", "materialize",
                  "finalize", "finish"},
            reaction : Reactions \cup {None}, seen : ReactionStates,
            context : SUBSET Messages, proposal : Contents \cup {None},
            outbound : BOOLEAN]

TypeOK ==
    /\ authority \in [desired : {"STOPPED", "RUNNING"}, revision : Nat]
    /\ mailbox \in [revision : Nat, consumed : Nat, open : Reactions \cup {None}]
    /\ facts \subseteq [sequence : Nat, direction : {"INBOUND", "OUTBOUND"},
                        of : Messages \cup Reactions]
    /\ last \in Nat
    /\ reaction \in [Reactions -> Reaction]
    /\ commit \in [Reactions -> Contents \cup {None}]
    /\ item \in [Messages -> {"NONE", "READY", "SUCCEEDED", "FAILED"}]
    /\ attempt \in [Messages -> Attempt]
    /\ sender \in [Messages -> Nat]
    /\ decided \in [Reactions -> SUBSET Messages]
    /\ under \in [Messages -> Nat]
    /\ faults \in Nat

------------------------------------------------------------------------------
(* Safety *)

(* REACT-002.  The mailbox names the one reaction in progress, and no      *)
(* other is: however attempts of different items adopt, supersede, decide  *)
(* and finish it.                                                          *)
OneOpenReaction ==
    \A r \in Reactions : reaction[r].state \in InProgress <=> mailbox.open = r

(* Every message below the consumed cursor was in the projection on which  *)
(* one accepted decision was taken, and only one: none is consumed unseen, *)
(* and none is answered or passed over twice.                              *)
ConsumedWasConsidered ==
    \A f \in facts : f.direction = "INBOUND" /\ f.sequence <= mailbox.consumed =>
        \E r \in Reactions :
            /\ f.of \in decided[r]
            /\ \A s \in Reactions \ {r} : f.of \notin decided[s]

(* REACT-013, REACT-014.  A reaction is REPLIED exactly when its outbound  *)
(* fact exists, there is one, and a communication commit stands behind it. *)
ExactlyOneReply ==
    \A r \in Reactions :
        /\ reaction[r].state = "REPLIED" <=> OutboundExists(r)
        /\ OutboundExists(r) => commit[r] # None
        /\ \A f, g \in facts :
              f.direction = "OUTBOUND" /\ g.direction = "OUTBOUND" /\ f.of = r /\ g.of = r
                => f = g

(* Inbound and outbound facts share one numbering without gap or repeat,   *)
(* and a reply is numbered after every message it answers.                 *)
NumberedInOrder ==
    /\ {f.sequence : f \in facts} = 1 .. last
    /\ \A f, g \in facts : f.sequence = g.sequence => f = g
    /\ \A f \in facts : f.direction = "OUTBOUND" => f.sequence > reaction[f.of].through

(* One conversation, one reaction at a time, and every message in its turn. *)
ConversationIsKept == TypeOK /\ OneOpenReaction /\ ConsumedWasConsidered /\ NumberedInOrder

(* reaction-behavior.md:252-256: a superseded reaction needs no timer since *)
(* the newer accepted message already owns a WorkItem.                      *)
SupersededHasWork ==
    \A r \in Reactions :
        /\ reaction[r].state = "SUPERSEDED"
        /\ mailbox.revision > reaction[r].mailbox
        /\ PendingInbound(mailbox.consumed) # {}
        => \E i \in Messages : item[i] = "READY"

------------------------------------------------------------------------------
(* Liveness *)

(* REACT-012.  A communication commit survives failing attempts and ends   *)
(* in its reply, whether or not the Subject is stopped meanwhile.          *)
CommitIsReplied ==
    \A r \in Reactions : commit[r] # None ~> OutboundExists(r)

(* While the Subject keeps running and no attempt is lost, every accepted  *)
(* message is consumed, in whatever order the items run and messages come. *)
AcceptedIsConsumed ==
    \A m \in Messages : \A n \in 1 .. MaxRevision :
        Accepted(m) /\ under[m] = n ~>
            \/ m \notin MessagesOf(PendingInbound(mailbox.consumed))
            \/ authority.revision > n
            \/ faults > 0

------------------------------------------------------------------------------
(* The promise to the client. *)
Committed == {r \in Reactions : reaction[r].state = "COMMUNICATION_COMMITTED"}
Replied == {r \in Reactions : OutboundExists(r)}
Reply(r) == [to |-> decided[r], content |-> commit[r]]
Undecided ==
    {m \in MessagesOf(PendingInbound(mailbox.consumed)) :
        \A r \in Committed : m \notin decided[r]}

Replies == INSTANCE ConversationReplies WITH
    Nothing <- None,
    running <- authority.desired = "RUNNING",
    known <- {m \in Messages : Accepted(m)},
    waiting <- Undecided,
    owed <- IF Committed = {} THEN None ELSE Reply(CHOOSE r \in Committed : TRUE),
    sent <- {Reply(r) : r \in Replied}

(* Every message is decided upon together with all that wait, by a running *)
(* Subject, with at most one answer outstanding, which is sent as decided. *)
ImplementsReplies == Replies!Spec

=============================================================================
