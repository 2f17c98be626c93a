------------------------- MODULE SubjectReaction_proofs -------------------------
(***************************************************************************)
(* Proofs, for every set of messages, reactions and contents and any       *)
(* number of attempts, revisions and faults, of the safety properties that *)
(* the run of MCSubjectReaction checks, and of the refinement of           *)
(* ConversationReplies.  The argument: the mailbox names the one reaction  *)
(* in progress, and only that reaction moves the cursor; what an attempt   *)
(* showed the model therefore stays exactly the messages between the       *)
(* cursor and the reaction's range for as long as the reaction is open,    *)
(* and the fence on the mailbox revision says that nothing waits beyond.   *)
(***************************************************************************)
EXTENDS SubjectReaction, TLAPS

Inbound(f) == f.direction = "INBOUND"
Outbound(f) == f.direction = "OUTBOUND"

(* The messages a reaction has to decide on: above the cursor, in its range. *)
Context(r) ==
    MessagesOf({f \in PendingInbound(mailbox.consumed) : f.sequence <= reaction[r].through})

(* The numbering of the conversation, and who a fact belongs to.            *)
FactsOK ==
    /\ {f.sequence : f \in facts} = 1 .. last
    /\ \A f, g \in facts : f.sequence = g.sequence => f = g
    /\ \A f, g \in facts : f.direction = g.direction /\ f.of = g.of => f = g
    /\ \A f \in facts : Inbound(f) => f.of \in Messages
    /\ \A f \in facts : Outbound(f) =>
          f.of \in Reactions /\ reaction[f.of].state = "REPLIED" /\ f.sequence > reaction[f.of].through

(* What the row of a reaction, its commit and the conversation say together. *)
RowOK(r) ==
    LET x == reaction[r] IN
    /\ x.state \in InProgress <=> mailbox.open = r
    /\ x.state \in {"COMMUNICATION_COMMITTED", "REPLIED"} <=> commit[r] # None
    /\ x.state = "REPLIED" => OutboundExists(r)
    /\ x.state \in {"ABSENT", "OPEN", "SUPERSEDED"} => decided[r] = {}
    /\ x.state \in InProgress =>
          /\ mailbox.consumed < x.through /\ x.through <= last
          /\ \E f \in facts : Inbound(f) /\ f.sequence = x.through
    /\ x.state = "COMMUNICATION_COMMITTED" => decided[r] = Context(r)
    /\ x.state = "OPEN" =>
          /\ x.mailbox <= mailbox.revision
          /\ x.mailbox = mailbox.revision =>
                \A f \in facts : Inbound(f) => f.sequence <= x.through

(* A message was decided on at most once; a consumed one, exactly once.     *)
DecidedOK ==
    /\ mailbox.consumed <= last
    /\ \A r, s \in Reactions : r # s => decided[r] \cap decided[s] = {}
    /\ \A r \in Reactions : \A m \in decided[r] : \E f \in facts :
          /\ Inbound(f) /\ f.of = m
          /\ reaction[r].state \in {"NO_COMMUNICATION", "REPLIED"} => f.sequence <= mailbox.consumed
    /\ \A f \in facts : Inbound(f) /\ f.sequence <= mailbox.consumed =>
          \E r \in Reactions : f.of \in decided[r]

(* What an attempt has read is still so, wherever its handler stands.       *)
AttemptOK(i) ==
    LET x == attempt[i]
        r == x.reaction
    IN  /\ x.pc \notin {"idle", "finish"} => r \in Reactions /\ reaction[r].state # "ABSENT"
        /\ x.pc = "commit" /\ reaction[r].state = "OPEN" => x.context = Context(r)
        /\ x.pc \in {"express", "materialize"} =>
              reaction[r].state \in {"COMMUNICATION_COMMITTED", "REPLIED"}
        /\ x.pc = "materialize" /\ x.outbound => OutboundExists(r)
        /\ x.pc = "finalize" => reaction[r].state = "REPLIED"

Data == TypeOK /\ FactsOK /\ DecidedOK /\ \A r \in Reactions : RowOK(r)
Inv == Data /\ \A i \in Messages : AttemptOK(i)

------------------------------------------------------------------------------
(* Type correctness.                                                        *)

(* The empty conversation of a stopped Subject is typed.                    *)
LEMMA InitType == Init => TypeOK
  BY DEF Init, TypeOK, Idle, Reaction, ReactionStates, Attempt

(* Moving an attempt on keeps it typed.                                     *)
LEMMA AttemptType ==
    ASSUME TypeOK, NEW i \in Messages
    PROVE  /\ \A pc \in {"idle", "progress", "decide", "commit", "express", "materialize",
                         "finalize", "finish"} :
                 Goto(i, pc) => attempt' \in [Messages -> Attempt]
           /\ \A r \in Reactions, seen \in ReactionStates :
                 Begin(i, r, seen) => attempt' \in [Messages -> Attempt]
           /\ attempt' = [attempt EXCEPT ![i] = Idle] => attempt' \in [Messages -> Attempt]
  <1>1. attempt \in [Messages -> Attempt] /\ attempt[i] \in Attempt
    BY DEF TypeOK
  <1>2. Idle \in Attempt
    BY DEF Idle, Attempt, ReactionStates
  <1>3. ASSUME NEW pc \in {"idle", "progress", "decide", "commit", "express", "materialize",
                           "finalize", "finish"}, Goto(i, pc)
        PROVE  attempt' \in [Messages -> Attempt]
    BY <1>1, <1>3 DEF Goto, Attempt
  <1>4. ASSUME NEW r \in Reactions, NEW seen \in ReactionStates, Begin(i, r, seen)
        PROVE  attempt' \in [Messages -> Attempt]
    BY <1>1, <1>4 DEF Begin, Attempt
  <1>5. ASSUME attempt' = [attempt EXCEPT ![i] = Idle]
        PROVE  attempt' \in [Messages -> Attempt]
    BY <1>1, <1>2, <1>5
  <1> QED BY <1>3, <1>4, <1>5

(* Moving a reaction, releasing the mailbox and moving its cursor.          *)
LEMMA RowType ==
    ASSUME TypeOK, NEW r \in Reactions
    PROVE  /\ \A state \in ReactionStates :
                 ReactionTo(r, state) => reaction' \in [Reactions -> Reaction]
           /\ Release(r) \/ Advance(r) =>
                 mailbox' \in [revision : Nat, consumed : Nat, open : Reactions \cup {None}]
           /\ Supersede(r) => reaction' \in [Reactions -> Reaction]
  <1>1. reaction \in [Reactions -> Reaction] /\ reaction[r] \in Reaction
    BY DEF TypeOK
  <1>2. mailbox \in [revision : Nat, consumed : Nat, open : Reactions \cup {None}]
    BY DEF TypeOK
  <1>3. ASSUME NEW state \in ReactionStates, ReactionTo(r, state)
        PROVE  reaction' \in [Reactions -> Reaction]
    BY <1>1, <1>3 DEF ReactionTo, Reaction
  <1>4. ASSUME Release(r)
        PROVE mailbox' \in [revision : Nat, consumed : Nat, open : Reactions \cup {None}]
    BY <1>2, <1>4 DEF Release
  <1>5. ASSUME Advance(r)
        PROVE mailbox' \in [revision : Nat, consumed : Nat, open : Reactions \cup {None}]
    BY <1>1, <1>2, <1>5 DEF Advance, Reaction
  <1>6. ASSUME Supersede(r) PROVE reaction' \in [Reactions -> Reaction]
    <2>1. reaction[r].state \in ReactionStates /\ "SUPERSEDED" \in ReactionStates
      BY <1>1 DEF Reaction, ReactionStates
    <2> QED BY <1>3, <1>6, <2>1 DEF Supersede
  <1> QED BY <1>3, <1>4, <1>5, <1>6

(* Appending a fact for a message or a reaction keeps the facts typed.      *)
LEMMA FactType ==
    ASSUME TypeOK, NEW direction \in {"INBOUND", "OUTBOUND"}, NEW of \in Messages \cup Reactions,
           AppendFact(direction, of)
    PROVE  /\ last' \in Nat
           /\ facts' \subseteq [sequence : Nat, direction : {"INBOUND", "OUTBOUND"},
                                of : Messages \cup Reactions]
  BY DEF TypeOK, AppendFact, Fact

Quiet == UNCHANGED <<authority, mailbox, facts, last, reaction, commit, decided, under>>

(* The clients' and the operator's steps keep the types.                    *)
LEMMA ClientType ==
    ASSUME TypeOK,
           \/ \E desired \in {"STOPPED", "RUNNING"} : SetDesiredState(desired)
           \/ \E m \in Messages : PrepareInbound(m) \/ AcceptInbound(m) \/ AcceptNothing(m)
    PROVE  TypeOK'
  <1>1. ASSUME NEW desired \in {"STOPPED", "RUNNING"}, SetDesiredState(desired) PROVE TypeOK'
    BY <1>1 DEF SetDesiredState, TypeOK, conversation
  <1>2. ASSUME NEW m \in Messages, PrepareInbound(m) \/ AcceptNothing(m) PROVE TypeOK'
    BY <1>2 DEF PrepareInbound, AcceptNothing, TypeOK, conversation, subject
  <1>3. ASSUME NEW m \in Messages, AcceptInbound(m) PROVE TypeOK'
    <2>1. /\ last' \in Nat
          /\ facts' \subseteq [sequence : Nat, direction : {"INBOUND", "OUTBOUND"},
                               of : Messages \cup Reactions]
      BY <1>3, FactType DEF AcceptInbound
    <2> QED BY <1>3, <2>1 DEF AcceptInbound, TypeOK, subject
  <1> QED BY <1>1, <1>2, <1>3

(* Acquiring a reaction keeps the types.                                    *)
LEMMA AcquireType ==
    ASSUME TypeOK, NEW i \in Messages, Acquire(i)
    PROVE  TypeOK'
  <1>1. ASSUME NEW r \in Reactions, AcquireOwned(i, r) \/ AcquireOpen(i, r) PROVE TypeOK'
    <2>1. reaction[r].state \in ReactionStates
      BY DEF TypeOK, Reaction
    <2>2. attempt' \in [Messages -> Attempt]
      BY <1>1, <2>1, AttemptType DEF AcquireOwned, AcquireOpen
    <2> QED BY <1>1, <2>2 DEF AcquireOwned, AcquireOpen, TypeOK, subject, conversation
  <1>2. ASSUME NEW r \in Reactions, AcquireStale(i, r) PROVE TypeOK'
    <2>1. "SUPERSEDED" \in ReactionStates
      BY DEF ReactionStates
    <2>2. attempt' \in [Messages -> Attempt]
      BY <1>2, <2>1, AttemptType DEF AcquireStale
    <2>3. /\ reaction' \in [Reactions -> Reaction]
          /\ mailbox' \in [revision : Nat, consumed : Nat, open : Reactions \cup {None}]
      BY <1>2, RowType DEF AcquireStale, Supersede
    <2> QED BY <1>2, <2>2, <2>3 DEF AcquireStale, TypeOK, conversation
  <1>3. ASSUME NEW r \in Reactions, AcquireNew(i, r) PROVE TypeOK'
    <2>1. "OPEN" \in ReactionStates
      BY DEF ReactionStates
    <2>2. attempt' \in [Messages -> Attempt]
      BY <1>3, <2>1, AttemptType DEF AcquireNew
    <2>3. PICK f \in facts : reaction' = [reaction EXCEPT ![r] =
               [state |-> "OPEN", mailbox |-> mailbox.revision, through |-> f.sequence,
                authority |-> authority.revision, owner |-> i]]
      BY <1>3 DEF AcquireNew, PendingInbound
    <2>4. [state |-> "OPEN", mailbox |-> mailbox.revision, through |-> f.sequence,
           authority |-> authority.revision, owner |-> i] \in Reaction
      BY <2>1 DEF TypeOK, Reaction
    <2>5. reaction' \in [Reactions -> Reaction]
      BY <2>3, <2>4 DEF TypeOK
    <2> QED BY <1>3, <2>2, <2>5 DEF AcquireNew, TypeOK, conversation
  <1>4. ASSUME AcquireNothing(i) PROVE TypeOK'
    <2>1. attempt' \in [Messages -> Attempt]
      BY <1>4, AttemptType DEF AcquireNothing
    <2> QED BY <1>4, <2>1 DEF AcquireNothing, TypeOK, conversation, subject
  <1> QED BY <1>1, <1>2, <1>3, <1>4 DEF Acquire

(* Reading, generating and finishing change only the attempt and the item.  *)
LEMMA AttemptStepType ==
    ASSUME TypeOK, FactsOK, NEW i \in Messages,
           \/ ReadProgress(i) \/ Generate(i) \/ CommitAlreadyDecided(i) \/ Express(i)
           \/ MaterializedBefore(i) \/ Finish(i)
           \/ \E kind \in FaultKinds : EndWithoutOutcome(i, kind)
    PROVE  TypeOK'
  <1>0. attempt \in [Messages -> Attempt] /\ attempt[i] \in Attempt
    BY DEF TypeOK
  <1>1. ASSUME ReadProgress(i) PROVE TypeOK'
    <2>1. Progress(i) \in {"finalize", "finish", "express", "decide"}
      BY <1>1 DEF ReadProgress, Progress
    <2>2. attempt' \in [Messages -> Attempt]
      BY <1>1, <2>1, AttemptType DEF ReadProgress
    <2> QED BY <1>1, <2>2 DEF ReadProgress, TypeOK, conversation, subject
  <1>2. ASSUME Generate(i) PROVE TypeOK'
    <2>1. PICK proposal \in Contents \cup {None} :
             attempt' = [attempt EXCEPT ![i].pc = "commit", ![i].proposal = proposal,
                                        ![i].context = Context(attempt[i].reaction)]
      BY <1>2 DEF Generate, Context
    <2>2. Context(attempt[i].reaction) \subseteq Messages
      BY DEF Context, MessagesOf, PendingInbound, FactsOK, Inbound
    <2>3. attempt' \in [Messages -> Attempt]
      BY <1>0, <2>1, <2>2 DEF Attempt
    <2> QED BY <1>2, <2>3 DEF Generate, TypeOK, conversation, subject
  <1>3. ASSUME CommitAlreadyDecided(i) \/ MaterializedBefore(i) PROVE TypeOK'
    <2>1. attempt' \in [Messages -> Attempt]
      BY <1>3, AttemptType DEF CommitAlreadyDecided, MaterializedBefore
    <2> QED BY <1>3, <2>1 DEF CommitAlreadyDecided, MaterializedBefore, TypeOK, conversation, subject
  <1>4. ASSUME Express(i) PROVE TypeOK'
    <2>1. OutboundExists(attempt[i].reaction) \in BOOLEAN
      BY DEF OutboundExists
    <2>2. attempt' \in [Messages -> Attempt]
      BY <1>0, <1>4, <2>1 DEF Express, Attempt
    <2> QED BY <1>4, <2>2 DEF Express, TypeOK, conversation, subject
  <1>5. ASSUME Finish(i) PROVE TypeOK'
    BY <1>5, AttemptType DEF Finish, TypeOK, conversation, subject
  <1>6. ASSUME NEW kind \in FaultKinds, EndWithoutOutcome(i, kind) PROVE TypeOK'
    <2>1. attempt' \in [Messages -> Attempt]
      BY <1>6, AttemptType DEF EndWithoutOutcome
    <2>2. item' \in [Messages -> {"NONE", "READY", "SUCCEEDED", "FAILED"}]
      BY <1>6 DEF EndWithoutOutcome, TypeOK
    <2> QED BY <1>6, <2>1, <2>2 DEF EndWithoutOutcome, TypeOK, conversation, subject
  <1> QED BY <1>1, <1>2, <1>3, <1>4, <1>5, <1>6

(* A decision, and its reply, keep the types.                               *)
LEMMA DecisionType ==
    ASSUME TypeOK, NEW i \in Messages, attempt[i].reaction \in Reactions,
           \/ CommitSuperseded(i) \/ CommitSilence(i) \/ CommitCommunication(i)
           \/ Materialize(i) \/ FinalizeReplied(i)
    PROVE  TypeOK'
  <1> DEFINE r == attempt[i].reaction
  <1>0. attempt[i].context \in SUBSET Messages /\ attempt[i].proposal \in Contents \cup {None}
    BY DEF TypeOK, Attempt
  <1>a. {"SUPERSEDED", "NO_COMMUNICATION", "COMMUNICATION_COMMITTED", "REPLIED"} \subseteq ReactionStates
    BY DEF ReactionStates
  <1>1. ASSUME CommitSuperseded(i) PROVE TypeOK'
    <2>1. /\ reaction' \in [Reactions -> Reaction]
          /\ mailbox' \in [revision : Nat, consumed : Nat, open : Reactions \cup {None}]
          /\ attempt' \in [Messages -> Attempt]
      BY <1>1, RowType, AttemptType DEF CommitSuperseded, Supersede
    <2> QED BY <1>1, <2>1 DEF CommitSuperseded, TypeOK, conversation
  <1>2. ASSUME CommitSilence(i) PROVE TypeOK'
    <2>1. /\ reaction' \in [Reactions -> Reaction]
          /\ mailbox' \in [revision : Nat, consumed : Nat, open : Reactions \cup {None}]
          /\ attempt' \in [Messages -> Attempt]
      BY <1>2, <1>a, RowType, AttemptType DEF CommitSilence
    <2>2. decided' \in [Reactions -> SUBSET Messages]
      BY <1>0, <1>2 DEF CommitSilence, TypeOK
    <2> QED BY <1>2, <2>1, <2>2 DEF CommitSilence, TypeOK, conversation
  <1>3. ASSUME CommitCommunication(i) PROVE TypeOK'
    <2>1. /\ reaction' \in [Reactions -> Reaction]
          /\ attempt' \in [Messages -> Attempt]
      BY <1>3, <1>a, RowType, AttemptType DEF CommitCommunication
    <2>2. decided' \in [Reactions -> SUBSET Messages]
      BY <1>0, <1>3 DEF CommitCommunication, TypeOK
    <2>3. commit' \in [Reactions -> Contents \cup {None}]
      BY <1>0, <1>3 DEF CommitCommunication, TypeOK
    <2> QED BY <1>3, <2>1, <2>2, <2>3 DEF CommitCommunication, TypeOK, conversation
  <1>4. ASSUME Materialize(i) PROVE TypeOK'
    <2>1. /\ reaction' \in [Reactions -> Reaction]
          /\ mailbox' \in [revision : Nat, consumed : Nat, open : Reactions \cup {None}]
          /\ attempt' \in [Messages -> Attempt]
      BY <1>4, <1>a, RowType, AttemptType DEF Materialize
    <2>2. /\ last' \in Nat
          /\ facts' \subseteq [sequence : Nat, direction : {"INBOUND", "OUTBOUND"},
                               of : Messages \cup Reactions]
      <3>1. CASE UNCHANGED <<facts, last>>
        BY <3>1 DEF TypeOK
      <3>2. CASE AppendFact("OUTBOUND", r)
        BY <3>2, FactType
      <3> QED BY <1>4, <3>1, <3>2 DEF Materialize
    <2> QED BY <1>4, <2>1, <2>2 DEF Materialize, TypeOK
  <1>5. ASSUME FinalizeReplied(i) PROVE TypeOK'
    <2>1. /\ reaction' \in [Reactions -> Reaction]
          /\ mailbox' \in [revision : Nat, consumed : Nat, open : Reactions \cup {None}]
      <3>1. CASE UNCHANGED <<mailbox, reaction>>
        BY <3>1 DEF TypeOK
      <3>2. CASE Advance(r) /\ ReactionTo(r, "REPLIED")
        BY <3>2, <1>a, RowType
      <3> QED BY <1>5, <3>1, <3>2 DEF FinalizeReplied
    <2>2. attempt' \in [Messages -> Attempt]
      BY <1>5, AttemptType DEF FinalizeReplied
    <2> QED BY <1>5, <2>1, <2>2 DEF FinalizeReplied, TypeOK, conversation
  <1> QED BY <1>1, <1>2, <1>3, <1>4, <1>5

------------------------------------------------------------------------------
(* What a step does to the rows, the facts and the decisions.               *)

(* What no step takes back from a reaction an attempt works on.             *)
Onward(r) ==
    /\ reaction[r].state # "ABSENT" => reaction'[r].state # "ABSENT"
    /\ reaction[r].state \in {"COMMUNICATION_COMMITTED", "REPLIED"} =>
          reaction'[r].state \in {"COMMUNICATION_COMMITTED", "REPLIED"}
    /\ reaction[r].state = "REPLIED" => reaction'[r].state = "REPLIED"
    /\ OutboundExists(r) => OutboundExists(r)'
    /\ reaction[r].state # "ABSENT" /\ reaction'[r].state = "OPEN" =>
          reaction[r].state = "OPEN" /\ Context(r)' = Context(r)

(* The messages of a reaction, one by one.                                  *)
LEMMA ContextIs ==
    \A r, m : m \in Context(r) <=>
        \E f \in facts : /\ Inbound(f) /\ f.of = m
                         /\ f.sequence > mailbox.consumed /\ f.sequence <= reaction[r].through
  BY DEF Context, MessagesOf, PendingInbound, Inbound

(* A step that touches neither rows nor facts.                              *)
LEMMA QuietData ==
    ASSUME Data, TypeOK', UNCHANGED <<mailbox, facts, last, reaction, commit, decided>>
    PROVE  Data' /\ \A r \in Reactions : Onward(r)
  <1>1. \A r \in Reactions : Context(r)' = Context(r) /\ OutboundExists(r)' = OutboundExists(r)
    BY DEF Context, MessagesOf, PendingInbound, OutboundExists
  <1>2. \A r \in Reactions : RowOK(r)'
    BY <1>1 DEF Data, RowOK
  <1>3. FactsOK' /\ DecidedOK'
    BY DEF Data, FactsOK, DecidedOK
  <1> QED BY <1>1, <1>2, <1>3 DEF Data, Onward

(* A new fact has the next number; what was there is unchanged.             *)
LEMMA NewFact ==
    ASSUME Data, NEW direction \in {"INBOUND", "OUTBOUND"}, NEW of \in Messages \cup Reactions,
           AppendFact(direction, of)
    PROVE  LET n == Fact(last + 1, direction, of) IN
           /\ n.sequence = last + 1 /\ n.direction = direction /\ n.of = of
           /\ facts' = facts \cup {n} /\ last' = last + 1 /\ last \in Nat
           /\ \A f \in facts : f.sequence \in Nat /\ f.sequence <= last
           /\ {f.sequence : f \in facts'} = 1 .. last'
           /\ \A f, g \in facts' : f.sequence = g.sequence => f = g
  <1> DEFINE n == Fact(last + 1, direction, of)
  <1>1. n.sequence = last + 1 /\ n.direction = direction /\ n.of = of
    BY DEF Fact
  <1>2. facts' = facts \cup {n} /\ last' = last + 1 /\ last \in Nat
    BY DEF AppendFact, Data, TypeOK
  <1>3. \A f \in facts : f.sequence \in 1 .. last
    BY DEF Data, FactsOK
  <1>4. {f.sequence : f \in facts'} = 1 .. last'
    <2>1. {f.sequence : f \in facts'} = {f.sequence : f \in facts} \cup {n.sequence}
      BY <1>2
    <2>2. 1 .. last' = (1 .. last) \cup {last + 1}
      BY <1>2
    <2> QED BY <1>1, <2>1, <2>2 DEF Data, FactsOK
  <1>5. \A f, g \in facts' : f.sequence = g.sequence => f = g
    BY <1>1, <1>2, <1>3 DEF Data, FactsOK
  <1>6. \A f \in facts : f.sequence \in Nat /\ f.sequence <= last
    BY <1>2, <1>3
  <1> QED BY <1>1, <1>2, <1>4, <1>5, <1>6

(* An accepted message is beyond the range of every reaction in progress.   *)
LEMMA AcceptData ==
    ASSUME Data, TypeOK', NEW m \in Messages, AcceptInbound(m)
    PROVE  Data' /\ \A r \in Reactions : Onward(r)
  <1> DEFINE n == Fact(last + 1, "INBOUND", m)
  <1>1. /\ n.sequence = last + 1 /\ n.direction = "INBOUND" /\ n.of = m
        /\ facts' = facts \cup {n} /\ last' = last + 1 /\ last \in Nat
        /\ \A f \in facts : f.sequence \in Nat /\ f.sequence <= last
        /\ {f.sequence : f \in facts'} = 1 .. last'
        /\ \A f, g \in facts' : f.sequence = g.sequence => f = g
    BY NewFact DEF AcceptInbound
  <1>2. /\ UNCHANGED <<reaction, commit, decided>>
        /\ mailbox'.revision = mailbox.revision + 1
        /\ mailbox'.consumed = mailbox.consumed /\ mailbox'.open = mailbox.open
        /\ mailbox.revision \in Nat /\ mailbox.consumed \in Nat
    BY DEF AcceptInbound, subject, Data, TypeOK
  <1>3. \A f \in facts : Inbound(f) => f.of # m
    BY DEF AcceptInbound, Accepted, Inbound
  <1>4. \A r \in Reactions : reaction[r].through \in Nat /\ reaction[r].mailbox \in Nat
    BY DEF Data, TypeOK, Reaction
  <1>5. ASSUME NEW r \in Reactions PROVE OutboundExists(r)' <=> OutboundExists(r)
    BY <1>1 DEF OutboundExists
  <1>6. ASSUME NEW r \in Reactions, reaction[r].state \in InProgress
        PROVE  Context(r)' = Context(r)
    <2>1. reaction[r].through <= last
      BY <1>6 DEF Data, RowOK
    <2>2. \A f \in facts' : f.sequence <= reaction[r].through <=> f \in facts /\ f.sequence <= reaction[r].through
      BY <1>1, <1>4, <2>1
    <2> QED BY <1>1, <1>2, <2>2 DEF Context, MessagesOf, PendingInbound
  <1>7. FactsOK'
    <2>1. \A f, g \in facts' : f.direction = g.direction /\ f.of = g.of => f = g
      BY <1>1, <1>3 DEF Data, FactsOK, Inbound
    <2>2. \A f \in facts' : Inbound(f) => f.of \in Messages
      BY <1>1 DEF Data, FactsOK, Inbound
    <2>3. \A f \in facts' : Outbound(f) => f \in facts
      BY <1>1 DEF Outbound
    <2> QED BY <1>1, <1>2, <2>1, <2>2, <2>3 DEF Data, FactsOK, Inbound, Outbound
  <1>8. DecidedOK'
    <2>1. mailbox'.consumed <= last'
      BY <1>1, <1>2 DEF Data, DecidedOK
    <2>2. \A f \in facts' : f.sequence <= mailbox'.consumed => f \in facts
      BY <1>1, <1>2 DEF Data, DecidedOK
    <2>3. \A r \in Reactions : \A o \in decided'[r] : \E f \in facts' :
             /\ Inbound(f) /\ f.of = o
             /\ reaction'[r].state \in {"NO_COMMUNICATION", "REPLIED"} => f.sequence <= mailbox'.consumed
      BY <1>1, <1>2 DEF Data, DecidedOK
    <2>4. \A f \in facts' : Inbound(f) /\ f.sequence <= mailbox'.consumed =>
             \E r \in Reactions : f.of \in decided'[r]
      BY <1>2, <2>2 DEF Data, DecidedOK
    <2> QED BY <1>2, <2>1, <2>3, <2>4 DEF Data, DecidedOK, Inbound
  <1>9. ASSUME NEW r \in Reactions PROVE RowOK(r)'
    <2>1. RowOK(r)
      BY DEF Data
    <2>2. reaction'[r].state \in InProgress =>
             /\ mailbox'.consumed < reaction'[r].through /\ reaction'[r].through <= last'
             /\ \E f \in facts' : Inbound(f) /\ f.sequence = reaction'[r].through
      BY <1>1, <1>2, <1>4, <2>1 DEF RowOK
    <2>3. reaction'[r].state = "COMMUNICATION_COMMITTED" => decided'[r] = Context(r)'
      BY <1>2, <1>6, <2>1 DEF RowOK, InProgress
    <2>4. reaction'[r].state = "OPEN" => reaction'[r].mailbox < mailbox'.revision
      BY <1>2, <1>4, <2>1 DEF RowOK
    <2>5. reaction'[r].state = "REPLIED" => OutboundExists(r)'
      BY <1>2, <1>5, <2>1 DEF RowOK
    <2> QED BY <1>2, <1>4, <2>1, <2>2, <2>3, <2>4, <2>5 DEF RowOK, Inbound
  <1> QED BY <1>2, <1>5, <1>6, <1>7, <1>8, <1>9 DEF Data, Onward, InProgress

(* A reaction superseded while it was open leaves nothing behind.           *)
LEMMA SupersedeData ==
    ASSUME Data, TypeOK', NEW r \in Reactions, reaction[r].state = "OPEN", Supersede(r),
           UNCHANGED <<facts, last, commit, decided>>
    PROVE  Data' /\ \A s \in Reactions : Onward(s)
  <1>1. /\ reaction'[r].state = "SUPERSEDED"
        /\ \A s \in Reactions : reaction'[s].through = reaction[s].through
                                /\ reaction'[s].mailbox = reaction[s].mailbox
        /\ \A s \in Reactions \ {r} : reaction'[s] = reaction[s]
    BY DEF Supersede, ReactionTo, Data, TypeOK, Reaction
  <1>2. /\ mailbox'.revision = mailbox.revision /\ mailbox'.consumed = mailbox.consumed
        /\ mailbox'.open = None /\ mailbox.open = r
    BY DEF Supersede, Release, Data, TypeOK, RowOK, InProgress
  <1>3. \A s \in Reactions : Context(s)' = Context(s) /\ OutboundExists(s)' = OutboundExists(s)
    BY <1>1, <1>2 DEF Context, MessagesOf, PendingInbound, OutboundExists
  <1>4. FactsOK'
    BY <1>1 DEF Data, FactsOK, Outbound, Inbound
  <1>5. DecidedOK'
    <2>1. decided[r] = {}
      BY DEF Data, RowOK
    <2> QED BY <1>1, <1>2, <2>1 DEF Data, DecidedOK, Inbound
  <1>6. RowOK(r)'
    BY <1>1, <1>2, NoneAssumption DEF Data, RowOK, InProgress
  <1>7. ASSUME NEW s \in Reactions \ {r} PROVE RowOK(s)'
    <2>1. reaction[s].state \notin InProgress
      BY <1>2 DEF Data, RowOK
    <2> QED BY <1>1, <1>2, <1>3, <2>1, NoneAssumption DEF Data, RowOK, InProgress
  <1>8. \A s \in Reactions : Onward(s)
    BY <1>1, <1>3 DEF Onward
  <1> QED BY <1>4, <1>5, <1>6, <1>7, <1>8 DEF Data

(* A new reaction takes the mailbox as it is, and all that waits in it.     *)
LEMMA OpenData ==
    ASSUME Data, TypeOK', NEW i \in Messages, NEW r \in Reactions, AcquireNew(i, r)
    PROVE  Data' /\ \A s \in Reactions : Onward(s)
  <1>1. PICK f \in facts :
            /\ Inbound(f) /\ f.sequence > mailbox.consumed
            /\ \A g \in PendingInbound(mailbox.consumed) : g.sequence <= f.sequence
            /\ reaction' = [reaction EXCEPT ![r] =
                 [state |-> "OPEN", mailbox |-> mailbox.revision, through |-> f.sequence,
                  authority |-> authority.revision, owner |-> i]]
    BY DEF AcquireNew, PendingInbound, Inbound
  <1>2. /\ reaction'[r].state = "OPEN" /\ reaction'[r].mailbox = mailbox.revision
        /\ reaction'[r].through = f.sequence
        /\ \A s \in Reactions \ {r} : reaction'[s] = reaction[s]
    BY <1>1 DEF Data, TypeOK
  <1>3. /\ mailbox'.revision = mailbox.revision /\ mailbox'.consumed = mailbox.consumed
        /\ mailbox'.open = r
        /\ UNCHANGED <<facts, last, commit, decided>>
        /\ reaction[r].state = "ABSENT"
        /\ mailbox.revision \in Nat /\ mailbox.consumed \in Nat
    BY DEF AcquireNew, conversation, Data, TypeOK
  <1>4. \A s \in Reactions : reaction[s].state \notin InProgress
    BY DEF AcquireNew, OpenReaction, Data, RowOK
  <1>5. \A g \in facts : g.sequence \in Nat /\ g.sequence <= last
    BY DEF Data, TypeOK, FactsOK
  <1>6. \A g \in facts : Inbound(g) => g.sequence <= f.sequence
    BY <1>1, <1>3, <1>5 DEF PendingInbound, Inbound
  <1>7. \A s \in Reactions \ {r} : Context(s)' = Context(s)
    BY <1>2, <1>3 DEF Context, MessagesOf, PendingInbound
  <1>8. \A s \in Reactions : OutboundExists(s)' = OutboundExists(s)
    BY <1>3 DEF OutboundExists
  <1>9. FactsOK'
    <2>1. \A g \in facts : Outbound(g) => g.of # r
      BY <1>3 DEF Data, FactsOK
    <2> QED BY <1>2, <1>3, <2>1 DEF Data, FactsOK, Outbound, Inbound
  <1>10. DecidedOK'
    BY <1>2, <1>3 DEF Data, DecidedOK, Inbound
  <1>11. RowOK(r)'
    BY <1>1, <1>2, <1>3, <1>5, <1>6 DEF Data, RowOK, InProgress, Inbound
  <1>12. ASSUME NEW s \in Reactions \ {r} PROVE RowOK(s)'
    BY <1>2, <1>3, <1>4, <1>7, <1>8 DEF Data, RowOK, InProgress
  <1>13. ASSUME NEW s \in Reactions PROVE Onward(s)
    BY <1>2, <1>3, <1>4, <1>7, <1>8 DEF Onward, InProgress
  <1> QED BY <1>9, <1>10, <1>11, <1>12, <1>13 DEF Data

(* What an open reaction has to decide on was never decided on.             *)
LEMMA NeverDecided ==
    ASSUME Data, NEW r \in Reactions, mailbox.open = r, NEW s \in Reactions \ {r}
    PROVE  /\ Context(r) \cap decided[s] = {}
           /\ reaction[s].state \notin InProgress
  <1>1. reaction[s].state \notin InProgress /\ reaction[s].state \in ReactionStates
    BY DEF Data, RowOK, TypeOK, Reaction
  <1>2. ASSUME NEW m \in Context(r), m \in decided[s] PROVE FALSE
    <2>1. PICK f \in facts : Inbound(f) /\ f.of = m /\ f.sequence > mailbox.consumed
      BY <1>2, ContextIs
    <2>2. reaction[s].state \in {"NO_COMMUNICATION", "REPLIED"}
      BY <1>1, <1>2 DEF Data, RowOK, ReactionStates, InProgress
    <2>3. PICK g \in facts : Inbound(g) /\ g.of = m /\ g.sequence <= mailbox.consumed
      BY <1>2, <2>2 DEF Data, DecidedOK
    <2>4. f = g
      BY <2>1, <2>3 DEF Data, FactsOK, Inbound
    <2>5. f.sequence \in Nat /\ mailbox.consumed \in Nat
      BY DEF Data, TypeOK
    <2> QED BY <2>1, <2>3, <2>4, <2>5
  <1> QED BY <1>1, <1>2

(* Advancing the cursor over the range of the open reaction.                *)
LEMMA Advanced ==
    ASSUME Data, NEW r \in Reactions, reaction[r].state \in InProgress, Advance(r)
    PROVE  /\ mailbox'.revision = mailbox.revision /\ mailbox'.open = None
           /\ mailbox'.consumed = reaction[r].through
           /\ mailbox.consumed < reaction[r].through /\ reaction[r].through <= last
           /\ mailbox.consumed \in Nat /\ reaction[r].through \in Nat /\ last \in Nat
           /\ \A f \in facts : f.sequence \in Nat
  <1>1. /\ mailbox.open = r
        /\ mailbox.consumed < reaction[r].through /\ reaction[r].through <= last
    BY DEF Data, RowOK
  <1>2. /\ mailbox.consumed \in Nat /\ reaction[r].through \in Nat /\ last \in Nat
        /\ \A f \in facts : f.sequence \in Nat
    BY DEF Data, TypeOK, Reaction
  <1> QED BY <1>1, <1>2 DEF Advance, Data, TypeOK

(* Deciding to stay silent, on exactly what waits.                          *)
LEMMA SilenceData ==
    ASSUME Data, TypeOK', NEW r \in Reactions, reaction[r].state = "OPEN",
           Advance(r), ReactionTo(r, "NO_COMMUNICATION"),
           decided' = [decided EXCEPT ![r] = Context(r)],
           UNCHANGED <<facts, last, commit>>
    PROVE  Data' /\ \A s \in Reactions : Onward(s)
  <1>1. /\ reaction'[r].state = "NO_COMMUNICATION"
        /\ \A s \in Reactions : reaction'[s].through = reaction[s].through
        /\ \A s \in Reactions \ {r} : reaction'[s] = reaction[s]
    BY DEF ReactionTo, Data, TypeOK, Reaction
  <1>2. /\ mailbox'.revision = mailbox.revision /\ mailbox'.open = None
        /\ mailbox'.consumed = reaction[r].through
        /\ mailbox.consumed < reaction[r].through /\ reaction[r].through <= last
        /\ mailbox.consumed \in Nat /\ reaction[r].through \in Nat /\ last \in Nat
        /\ \A f \in facts : f.sequence \in Nat
    BY Advanced DEF InProgress
  <1>3. decided'[r] = Context(r) /\ \A s \in Reactions \ {r} : decided'[s] = decided[s]
    BY DEF Data, TypeOK
  <1>4. \A s \in Reactions \ {r} :
           Context(r) \cap decided[s] = {} /\ reaction[s].state \notin InProgress
    BY NeverDecided DEF Data, RowOK, InProgress
  <1>5. \A s \in Reactions : OutboundExists(s)' = OutboundExists(s)
    BY DEF OutboundExists
  <1>6. FactsOK'
    BY <1>1 DEF Data, FactsOK, Outbound, Inbound
  <1>7. DecidedOK'
    <2>1. \A m \in Context(r) : \E f \in facts :
             Inbound(f) /\ f.of = m /\ f.sequence <= mailbox'.consumed
      BY <1>2, ContextIs
    <2>2. ASSUME NEW s \in Reactions \ {r}, NEW m \in decided[s]
          PROVE  \E f \in facts :
                   /\ Inbound(f) /\ f.of = m
                   /\ reaction[s].state \in {"NO_COMMUNICATION", "REPLIED"} => f.sequence <= mailbox'.consumed
      <3>1. PICK f \in facts :
                   /\ Inbound(f) /\ f.of = m
                   /\ reaction[s].state \in {"NO_COMMUNICATION", "REPLIED"} => f.sequence <= mailbox.consumed
        BY <2>2 DEF Data, DecidedOK
      <3> QED BY <1>2, <3>1
    <2>3. ASSUME NEW f \in facts, Inbound(f), f.sequence <= mailbox'.consumed
          PROVE  \E s \in Reactions : f.of \in decided'[s]
      <3>1. CASE f.sequence <= mailbox.consumed
        <4>1. PICK s \in Reactions : f.of \in decided[s]
          BY <2>3, <3>1 DEF Data, DecidedOK
        <4>2. decided[r] = {}
          BY DEF Data, RowOK
        <4> QED BY <1>3, <4>1, <4>2
      <3>2. CASE f.sequence > mailbox.consumed
        BY <1>2, <1>3, <2>3, <3>2, ContextIs
      <3> QED BY <1>2, <3>1, <3>2
    <2>4. \A s, u \in Reactions : s # u => decided'[s] \cap decided'[u] = {}
      BY <1>3, <1>4 DEF Data, DecidedOK
    <2> QED BY <1>1, <1>2, <1>3, <2>1, <2>2, <2>3, <2>4 DEF DecidedOK, Inbound
  <1>8. RowOK(r)'
    BY <1>1, <1>2, NoneAssumption DEF Data, RowOK, InProgress
  <1>9. ASSUME NEW s \in Reactions \ {r} PROVE RowOK(s)'
    BY <1>1, <1>2, <1>3, <1>4, <1>5, NoneAssumption DEF Data, RowOK, InProgress
  <1>10. \A s \in Reactions : Onward(s)
    BY <1>1, <1>4, <1>5 DEF Onward, InProgress
  <1> QED BY <1>6, <1>7, <1>8, <1>9, <1>10 DEF Data

(* Deciding to answer: the cursor waits for the reply.                      *)
LEMMA CommunicateData ==
    ASSUME Data, TypeOK', NEW r \in Reactions, reaction[r].state = "OPEN",
           ReactionTo(r, "COMMUNICATION_COMMITTED"),
           decided' = [decided EXCEPT ![r] = Context(r)],
           NEW c \in Contents, commit' = [commit EXCEPT ![r] = c],
           UNCHANGED <<mailbox, facts, last>>
    PROVE  Data' /\ \A s \in Reactions : Onward(s)
  <1>1. /\ reaction'[r].state = "COMMUNICATION_COMMITTED"
        /\ \A s \in Reactions : reaction'[s].through = reaction[s].through
        /\ \A s \in Reactions \ {r} : reaction'[s] = reaction[s]
    BY DEF ReactionTo, Data, TypeOK, Reaction
  <1>2. mailbox.open = r
    BY DEF Data, RowOK, InProgress
  <1>3. /\ decided'[r] = Context(r) /\ \A s \in Reactions \ {r} : decided'[s] = decided[s]
        /\ commit'[r] = c /\ \A s \in Reactions \ {r} : commit'[s] = commit[s]
        /\ c # None /\ decided[r] = {}
    BY NoneAssumption DEF Data, TypeOK, RowOK
  <1>4. \A s \in Reactions \ {r} :
           Context(r) \cap decided[s] = {} /\ reaction[s].state \notin InProgress
    BY <1>2, NeverDecided
  <1>5. \A s \in Reactions : Context(s)' = Context(s) /\ OutboundExists(s)' = OutboundExists(s)
    BY <1>1 DEF Context, MessagesOf, PendingInbound, OutboundExists
  <1>6. FactsOK'
    BY <1>1 DEF Data, FactsOK, Outbound, Inbound
  <1>7. DecidedOK'
    <2>1. \A m \in Context(r) : \E f \in facts : Inbound(f) /\ f.of = m
      BY ContextIs
    <2>2. \A f \in facts : Inbound(f) /\ f.sequence <= mailbox.consumed =>
             \E s \in Reactions : f.of \in decided'[s]
      BY <1>3 DEF Data, DecidedOK
    <2>3. \A s, u \in Reactions : s # u => decided'[s] \cap decided'[u] = {}
      BY <1>3, <1>4 DEF Data, DecidedOK
    <2> QED BY <1>1, <1>3, <2>1, <2>2, <2>3 DEF Data, DecidedOK, Inbound
  <1>8. RowOK(r)'
    BY <1>1, <1>2, <1>3, <1>5 DEF Data, RowOK, InProgress, Inbound
  <1>9. ASSUME NEW s \in Reactions \ {r} PROVE RowOK(s)'
    BY <1>1, <1>3, <1>5 DEF Data, RowOK, Inbound
  <1>10. \A s \in Reactions : Onward(s)
    BY <1>1, <1>5 DEF Onward
  <1> QED BY <1>6, <1>7, <1>8, <1>9, <1>10 DEF Data

(* The reply is appended, and the cursor moves over what it answers.        *)
LEMMA ReplyData ==
    ASSUME Data, TypeOK', NEW r \in Reactions, reaction[r].state = "COMMUNICATION_COMMITTED",
           AppendFact("OUTBOUND", r), Advance(r), ReactionTo(r, "REPLIED"),
           UNCHANGED <<commit, decided>>
    PROVE  Data' /\ \A s \in Reactions : Onward(s)
  <1> DEFINE n == Fact(last + 1, "OUTBOUND", r)
  <1>1. /\ reaction'[r].state = "REPLIED"
        /\ \A s \in Reactions : reaction'[s].through = reaction[s].through
        /\ \A s \in Reactions \ {r} : reaction'[s] = reaction[s]
    BY DEF ReactionTo, Data, TypeOK, Reaction
  <1>2. /\ mailbox'.revision = mailbox.revision /\ mailbox'.open = None
        /\ mailbox'.consumed = reaction[r].through
        /\ mailbox.consumed < reaction[r].through /\ reaction[r].through <= last
        /\ mailbox.consumed \in Nat /\ reaction[r].through \in Nat /\ last \in Nat
    BY Advanced DEF InProgress
  <1>3. /\ n.sequence = last + 1 /\ n.direction = "OUTBOUND" /\ n.of = r
        /\ facts' = facts \cup {n} /\ last' = last + 1
        /\ \A f \in facts : f.sequence \in Nat /\ f.sequence <= last
        /\ {f.sequence : f \in facts'} = 1 .. last'
        /\ \A f, g \in facts' : f.sequence = g.sequence => f = g
    BY NewFact
  <1>4. mailbox.open = r /\ decided[r] = Context(r)
    BY DEF Data, RowOK, InProgress
  <1>5. \A s \in Reactions \ {r} : reaction[s].state \notin InProgress
    BY <1>4, NeverDecided
  <1>6. \A s \in Reactions : OutboundExists(s) => OutboundExists(s)'
    BY <1>3 DEF OutboundExists
  <1>7. OutboundExists(r)'
    BY <1>3 DEF OutboundExists
  <1>8. FactsOK'
    <2>1. \A f \in facts : Outbound(f) => f.of # r
      BY DEF Data, FactsOK, Outbound
    <2>2. \A f, g \in facts' : f.direction = g.direction /\ f.of = g.of => f = g
      BY <1>3, <2>1 DEF Data, FactsOK, Outbound
    <2>3. \A f \in facts' : Inbound(f) => f.of \in Messages
      BY <1>3 DEF Data, FactsOK, Inbound
    <2>4. ASSUME NEW f \in facts', Outbound(f)
          PROVE  f.of \in Reactions /\ reaction'[f.of].state = "REPLIED"
                 /\ f.sequence > reaction'[f.of].through
      <3>1. CASE f = n
        BY <1>1, <1>2, <1>3, <3>1
      <3>2. CASE f \in facts
        BY <1>1, <2>1, <2>4, <3>2 DEF Data, FactsOK
      <3> QED BY <1>3, <3>1, <3>2
    <2> QED BY <1>3, <2>2, <2>3, <2>4 DEF FactsOK, Inbound, Outbound
  <1>9. DecidedOK'
    <2>1. \A m \in decided[r] : \E f \in facts' :
             Inbound(f) /\ f.of = m /\ f.sequence <= mailbox'.consumed
      BY <1>2, <1>3, <1>4, ContextIs
    <2>2. ASSUME NEW s \in Reactions \ {r}, NEW m \in decided[s]
          PROVE  \E f \in facts' :
                   /\ Inbound(f) /\ f.of = m
                   /\ reaction[s].state \in {"NO_COMMUNICATION", "REPLIED"} => f.sequence <= mailbox'.consumed
      <3>1. PICK f \in facts :
                   /\ Inbound(f) /\ f.of = m
                   /\ reaction[s].state \in {"NO_COMMUNICATION", "REPLIED"} => f.sequence <= mailbox.consumed
        BY <2>2 DEF Data, DecidedOK
      <3> QED BY <1>2, <1>3, <3>1
    <2>3. ASSUME NEW f \in facts', Inbound(f), f.sequence <= mailbox'.consumed
          PROVE  \E s \in Reactions : f.of \in decided[s]
      <3>0. f \in facts
        BY <1>3, <2>3 DEF Inbound
      <3>1. CASE f.sequence <= mailbox.consumed
        BY <2>3, <3>0, <3>1 DEF Data, DecidedOK
      <3>2. CASE f.sequence > mailbox.consumed
        BY <1>2, <1>4, <2>3, <3>0, <3>2, ContextIs
      <3> QED BY <1>2, <1>3, <3>0, <3>1, <3>2
    <2>4. mailbox'.consumed <= last'
      BY <1>2, <1>3
    <2> QED BY <1>1, <2>1, <2>2, <2>3, <2>4 DEF Data, DecidedOK, Inbound
  <1>10. RowOK(r)'
    BY <1>1, <1>2, <1>7, NoneAssumption DEF Data, RowOK, InProgress
  <1>11. ASSUME NEW s \in Reactions \ {r} PROVE RowOK(s)'
    BY <1>1, <1>2, <1>5, <1>6, NoneAssumption DEF Data, RowOK, InProgress
  <1>12. \A s \in Reactions : Onward(s)
    BY <1>1, <1>5, <1>6 DEF Onward, InProgress
  <1> QED BY <1>8, <1>9, <1>10, <1>11, <1>12 DEF Data

------------------------------------------------------------------------------
(* The attempts.                                                            *)

(* What an attempt knows outlives the steps that leave it alone.            *)
LEMMA OthersKnow ==
    ASSUME Data, Data', NEW j \in Messages, AttemptOK(j), attempt'[j] = attempt[j],
           \A r \in Reactions : Onward(r)
    PROVE  AttemptOK(j)'
  <1> DEFINE x == attempt[j]
  <1>1. CASE x.pc \in {"idle", "finish"}
    BY <1>1 DEF AttemptOK
  <1>2. CASE x.pc \notin {"idle", "finish"}
    <2>1. x.reaction \in Reactions /\ reaction[x.reaction].state # "ABSENT" /\ Onward(x.reaction)
      BY <1>2 DEF AttemptOK
    <2>2. x.pc = "commit" /\ reaction'[x.reaction].state = "OPEN" => x.context = Context(x.reaction)'
      <3> SUFFICES ASSUME x.pc = "commit", reaction'[x.reaction].state = "OPEN"
                   PROVE  x.context = Context(x.reaction)'
        OBVIOUS
      <3>1. reaction[x.reaction].state = "OPEN" /\ Context(x.reaction)' = Context(x.reaction)
        BY <2>1 DEF Onward
      <3> QED BY <3>1 DEF AttemptOK
    <2> QED BY <2>1, <2>2 DEF AttemptOK, Onward
  <1> QED BY <1>1, <1>2

(* So a step of attempt i has to account for what i itself knows.           *)
LEMMA AttemptsKnow ==
    ASSUME Inv, Data', NEW i \in Messages, \A j \in Messages \ {i} : attempt'[j] = attempt[j],
           \A r \in Reactions : Onward(r), AttemptOK(i)'
    PROVE  Inv'
  BY OthersKnow DEF Inv

(* Every reaction an attempt may begin with exists.                         *)
LEMMA BegunKnows ==
    ASSUME Data, NEW i \in Messages, NEW r \in Reactions, NEW seen,
           Begin(i, r, seen), reaction'[r].state # "ABSENT"
    PROVE  AttemptOK(i)' /\ \A j \in Messages \ {i} : attempt'[j] = attempt[j]
  <1>1. attempt'[i].pc = "progress" /\ attempt'[i].reaction = r
        /\ \A j \in Messages \ {i} : attempt'[j] = attempt[j]
    BY DEF Begin, Data, TypeOK, Attempt
  <1> QED BY <1>1 DEF AttemptOK

(* Where only the place of an attempt changes.                              *)
LEMMA GoneTo ==
    ASSUME TypeOK, NEW i \in Messages, NEW pc, Goto(i, pc)
    PROVE  /\ attempt'[i].pc = pc /\ attempt'[i].reaction = attempt[i].reaction
           /\ attempt'[i].context = attempt[i].context
           /\ attempt'[i].outbound = attempt[i].outbound
           /\ \A j \in Messages \ {i} : attempt'[j] = attempt[j]
  BY DEF Goto, TypeOK, Attempt

(* Init satisfies the invariant.                                            *)
LEMMA InitInv == Init => Inv
  <1> SUFFICES ASSUME Init PROVE Inv
    OBVIOUS
  <1>1. TypeOK
    BY InitType
  <1>2. FactsOK
    BY DEF Init, FactsOK
  <1>3. DecidedOK
    BY DEF Init, DecidedOK
  <1>4. \A r \in Reactions : RowOK(r)
    BY NoneAssumption DEF Init, RowOK, InProgress
  <1>5. \A i \in Messages : AttemptOK(i)
    BY DEF Init, AttemptOK, Idle
  <1> QED BY <1>1, <1>2, <1>3, <1>4, <1>5 DEF Inv, Data

(* Clients and the operator.                                                *)
LEMMA ClientStep ==
    ASSUME Inv,
           \/ \E desired \in {"STOPPED", "RUNNING"} : SetDesiredState(desired)
           \/ \E m \in Messages : PrepareInbound(m) \/ AcceptInbound(m) \/ AcceptNothing(m)
    PROVE  Inv' /\ \A r \in Reactions : Onward(r)
  <1>1. TypeOK' /\ Data
    BY ClientType DEF Inv, Data
  <1>2. attempt' = attempt
    BY DEF SetDesiredState, PrepareInbound, AcceptInbound, AcceptNothing
  <1>3. Data' /\ \A r \in Reactions : Onward(r)
    <2>1. CASE UNCHANGED <<mailbox, facts, last, reaction, commit, decided>>
      BY <1>1, <2>1, QuietData
    <2>2. ASSUME NEW m \in Messages, AcceptInbound(m) PROVE Data' /\ \A r \in Reactions : Onward(r)
      BY <1>1, <2>2, AcceptData
    <2> QED BY <2>1, <2>2 DEF SetDesiredState, PrepareInbound, AcceptNothing, subject, conversation
  <1> QED BY <1>1, <1>2, <1>3, OthersKnow DEF Inv

(* acquireReaction.                                                         *)
LEMMA AcquireStep ==
    ASSUME Inv, NEW i \in Messages, Acquire(i)
    PROVE  Inv' /\ \A r \in Reactions : Onward(r)
  <1>1. TypeOK' /\ Data /\ TypeOK
    BY AcquireType DEF Inv, Data
  <1>2. ASSUME NEW r \in Reactions, AcquireOwned(i, r) \/ AcquireOpen(i, r)
        PROVE  Inv' /\ \A s \in Reactions : Onward(s)
    <2>1. Data' /\ \A s \in Reactions : Onward(s)
      BY <1>1, <1>2, QuietData DEF AcquireOwned, AcquireOpen, subject, conversation
    <2>2. reaction'[r].state # "ABSENT"
      BY <1>2 DEF AcquireOwned, AcquireOpen, OwnedBy, OpenReaction, InProgress, subject
    <2>3. Begin(i, r, reaction[r].state)
      BY <1>2 DEF AcquireOwned, AcquireOpen
    <2> QED BY <1>1, <2>1, <2>2, <2>3, BegunKnows, AttemptsKnow
  <1>3. ASSUME NEW r \in Reactions, AcquireStale(i, r)
        PROVE  Inv' /\ \A s \in Reactions : Onward(s)
    <2>1. Data' /\ \A s \in Reactions : Onward(s)
      BY <1>1, <1>3, SupersedeData DEF AcquireStale, conversation
    <2>2. reaction'[r].state # "ABSENT"
      BY <1>3, <2>1 DEF AcquireStale, Onward
    <2> QED BY <1>1, <1>3, <2>1, <2>2, BegunKnows, AttemptsKnow DEF AcquireStale
  <1>4. ASSUME NEW r \in Reactions, AcquireNew(i, r)
        PROVE  Inv' /\ \A s \in Reactions : Onward(s)
    <2>1. Data' /\ \A s \in Reactions : Onward(s)
      BY <1>1, <1>4, OpenData
    <2>2. reaction'[r].state # "ABSENT"
      BY <1>1, <1>4 DEF AcquireNew, TypeOK
    <2> QED BY <1>1, <1>4, <2>1, <2>2, BegunKnows, AttemptsKnow DEF AcquireNew
  <1>5. ASSUME AcquireNothing(i) PROVE Inv' /\ \A s \in Reactions : Onward(s)
    <2>1. UNCHANGED mailbox
      <3>1. CASE OpenReaction = {} /\ mailbox' = [mailbox EXCEPT !.open = None]
        <4>1. \A r \in Reactions : reaction[r].state \in InProgress <=> mailbox.open = r
          BY DEF Inv, Data, RowOK
        <4>2. mailbox \in [revision : Nat, consumed : Nat, open : Reactions \cup {None}]
          BY <1>1 DEF TypeOK
        <4>3. mailbox.open = None
          BY <3>1, <4>1, <4>2 DEF OpenReaction
        <4> QED BY <3>1, <4>2, <4>3
      <3> QED BY <1>5, <3>1 DEF AcquireNothing
    <2>2. Data' /\ \A s \in Reactions : Onward(s)
      BY <1>1, <1>5, <2>1, QuietData DEF AcquireNothing, subject, conversation
    <2>3. attempt'[i].pc = "finish" /\ \A j \in Messages \ {i} : attempt'[j] = attempt[j]
      BY <1>1, <1>5, GoneTo DEF AcquireNothing
    <2>4. AttemptOK(i)'
      BY <2>3 DEF AttemptOK
    <2> QED BY <2>2, <2>3, <2>4, AttemptsKnow
  <1> QED BY <1>2, <1>3, <1>4, <1>5 DEF Acquire

(* readProgress, the generation and the end of an attempt.                  *)
LEMMA AttemptStep ==
    ASSUME Inv, NEW i \in Messages,
           \/ ReadProgress(i) \/ Generate(i) \/ CommitAlreadyDecided(i) \/ Express(i)
           \/ MaterializedBefore(i) \/ Finish(i)
           \/ \E kind \in FaultKinds : EndWithoutOutcome(i, kind)
    PROVE  Inv' /\ \A r \in Reactions : Onward(r)
  <1>1. TypeOK' /\ Data /\ TypeOK /\ AttemptOK(i)
    BY AttemptStepType DEF Inv, Data
  <1>2. UNCHANGED <<mailbox, facts, last, reaction, commit, decided>>
    BY DEF ReadProgress, Generate, CommitAlreadyDecided, Express, MaterializedBefore, Finish,
           EndWithoutOutcome, subject, conversation
  <1>3. Data' /\ \A r \in Reactions : Onward(r)
    BY <1>1, <1>2, QuietData
  <1>4. \A r \in Reactions : Context(r)' = Context(r) /\ OutboundExists(r)' = OutboundExists(r)
    BY <1>2 DEF Context, MessagesOf, PendingInbound, OutboundExists
  <1> DEFINE r == attempt[i].reaction
  <1> SUFFICES AttemptOK(i)' /\ \A j \in Messages \ {i} : attempt'[j] = attempt[j]
    BY <1>3, AttemptsKnow
  <1>5. CASE ReadProgress(i)
    <2>1. /\ attempt'[i].pc = Progress(i) /\ attempt'[i].reaction = r
          /\ \A j \in Messages \ {i} : attempt'[j] = attempt[j]
      BY <1>1, <1>5, GoneTo DEF ReadProgress
    <2>2. r \in Reactions /\ reaction[r].state # "ABSENT"
      BY <1>1, <1>5 DEF ReadProgress, At, AttemptOK
    <2>3. CASE OutboundExists(r)
      <3>1. reaction[r].state = "REPLIED"
        BY <1>1, <2>2, <2>3 DEF Data, FactsOK, OutboundExists, Outbound
      <3> QED BY <1>2, <2>1, <2>2, <2>3, <3>1 DEF AttemptOK, Progress
    <2>4. CASE ~ OutboundExists(r)
      <3>1. commit[r] # None => reaction[r].state \in {"COMMUNICATION_COMMITTED", "REPLIED"}
        BY <1>1, <2>2 DEF Data, RowOK
      <3> QED BY <1>2, <1>5, <2>1, <2>2, <2>4, <3>1 DEF AttemptOK, Progress, ReadProgress
    <2> QED BY <2>3, <2>4, <2>1
  <1>6. CASE Generate(i)
    <2>1. /\ attempt'[i].pc = "commit" /\ attempt'[i].reaction = r
          /\ attempt'[i].context = Context(r)
          /\ \A j \in Messages \ {i} : attempt'[j] = attempt[j]
      <3>1. PICK proposal \in Contents \cup {None} :
               attempt' = [attempt EXCEPT ![i].pc = "commit", ![i].proposal = proposal,
                                          ![i].context = Context(r)]
        BY <1>6 DEF Generate, Context
      <3> QED BY <1>1, <3>1 DEF TypeOK, Attempt
    <2>2. r \in Reactions /\ reaction[r].state # "ABSENT"
      BY <1>1, <1>6 DEF Generate, At, AttemptOK
    <2> QED BY <1>2, <1>4, <2>1, <2>2 DEF AttemptOK
  <1>7. CASE CommitAlreadyDecided(i)
    <2>1. r \in Reactions /\ reaction[r].state # "ABSENT"
      BY <1>1, <1>7 DEF CommitAlreadyDecided, At, AttemptOK
    <2>2. CASE Goto(i, "finish")
      <3>1. attempt'[i].pc = "finish" /\ \A j \in Messages \ {i} : attempt'[j] = attempt[j]
        BY <1>1, <2>2, GoneTo
      <3> QED BY <3>1 DEF AttemptOK
    <2>3. CASE Goto(i, "express") /\ reaction[r].state \in {"COMMUNICATION_COMMITTED", "REPLIED"}
      <3>1. /\ attempt'[i].pc = "express" /\ attempt'[i].reaction = r
            /\ \A j \in Messages \ {i} : attempt'[j] = attempt[j]
        BY <1>1, <2>3, GoneTo
      <3> QED BY <1>2, <2>1, <2>3, <3>1 DEF AttemptOK
    <2> QED BY <1>7, <2>2, <2>3 DEF CommitAlreadyDecided
  <1>8. CASE Express(i)
    <2>1. /\ attempt'[i].pc = "materialize" /\ attempt'[i].reaction = r
          /\ attempt'[i].outbound = OutboundExists(r)
          /\ \A j \in Messages \ {i} : attempt'[j] = attempt[j]
      BY <1>1, <1>8 DEF Express, TypeOK, Attempt
    <2>2. r \in Reactions /\ reaction[r].state \in {"COMMUNICATION_COMMITTED", "REPLIED"}
      BY <1>1, <1>8 DEF Express, At, AttemptOK
    <2> QED BY <1>2, <1>4, <2>1, <2>2 DEF AttemptOK
  <1>9. CASE MaterializedBefore(i)
    <2>1. attempt'[i].pc = "finish" /\ \A j \in Messages \ {i} : attempt'[j] = attempt[j]
      BY <1>1, <1>9, GoneTo DEF MaterializedBefore
    <2> QED BY <2>1 DEF AttemptOK
  <1>10. CASE Finish(i) \/ \E kind \in FaultKinds : EndWithoutOutcome(i, kind)
    <2>1. attempt'[i].pc = "idle" /\ \A j \in Messages \ {i} : attempt'[j] = attempt[j]
      BY <1>1, <1>10 DEF Finish, EndWithoutOutcome, TypeOK, Idle
    <2> QED BY <2>1 DEF AttemptOK
  <1> QED BY <1>5, <1>6, <1>7, <1>8, <1>9, <1>10

(* The decision and its reply.                                              *)
LEMMA DecisionStep ==
    ASSUME Inv, NEW i \in Messages,
           \/ CommitSuperseded(i) \/ CommitSilence(i) \/ CommitCommunication(i)
           \/ Materialize(i) \/ FinalizeReplied(i)
    PROVE  Inv' /\ \A r \in Reactions : Onward(r)
  <1> DEFINE r == attempt[i].reaction
  <1>1. Data /\ TypeOK /\ AttemptOK(i)
    BY DEF Inv, Data
  <1>2. r \in Reactions /\ reaction[r].state # "ABSENT"
    BY <1>1 DEF AttemptOK, CommitSuperseded, CommitSilence, CommitCommunication, Materialize,
                FinalizeReplied, At
  <1>3. TypeOK'
    BY <1>1, <1>2, DecisionType
  <1>4. ASSUME Goto(i, "finish"), Data', \A s \in Reactions : Onward(s)
        PROVE  Inv'
    <2>1. attempt'[i].pc = "finish" /\ \A j \in Messages \ {i} : attempt'[j] = attempt[j]
      BY <1>1, <1>4, GoneTo
    <2>2. AttemptOK(i)'
      BY <2>1 DEF AttemptOK
    <2> QED BY <1>4, <2>1, <2>2, AttemptsKnow
  <1>5. CASE CommitSuperseded(i)
    <2>1. Data' /\ \A s \in Reactions : Onward(s)
      BY <1>1, <1>2, <1>3, <1>5, SupersedeData DEF CommitSuperseded, conversation
    <2> QED BY <1>4, <1>5, <2>1 DEF CommitSuperseded
  <1>6. CASE CommitSilence(i)
    <2>1. attempt[i].context = Context(r)
      BY <1>1, <1>6 DEF CommitSilence, At, AttemptOK
    <2>2. Data' /\ \A s \in Reactions : Onward(s)
      BY <1>1, <1>2, <1>3, <1>6, <2>1, SilenceData DEF CommitSilence, conversation
    <2> QED BY <1>4, <1>6, <2>2 DEF CommitSilence
  <1>7. CASE CommitCommunication(i)
    <2>1. attempt[i].context = Context(r)
      BY <1>1, <1>7 DEF CommitCommunication, At, AttemptOK
    <2>2. commit[r] = None /\ attempt[i].proposal \in Contents
      BY <1>1, <1>2, <1>7 DEF Data, RowOK, CommitCommunication, TypeOK, Attempt
    <2>3. commit' = [commit EXCEPT ![r] = attempt[i].proposal]
      BY <1>7, <2>2 DEF CommitCommunication
    <2>4. Data' /\ \A s \in Reactions : Onward(s)
      BY <1>1, <1>2, <1>3, <1>7, <2>1, <2>2, <2>3, CommunicateData DEF CommitCommunication, conversation
    <2>5. /\ attempt'[i].pc = "express" /\ attempt'[i].reaction = r
          /\ \A j \in Messages \ {i} : attempt'[j] = attempt[j]
      BY <1>1, <1>7, GoneTo DEF CommitCommunication
    <2>6. reaction'[r].state = "COMMUNICATION_COMMITTED"
      BY <1>1, <1>2, <1>7 DEF CommitCommunication, ReactionTo, TypeOK, Reaction
    <2>7. AttemptOK(i)'
      BY <1>2, <2>5, <2>6 DEF AttemptOK
    <2> QED BY <2>4, <2>5, <2>7, AttemptsKnow
  <1>8. CASE Materialize(i)
    <2>1. ~ OutboundExists(r)
      BY <1>1, <1>8 DEF Materialize, Data, FactsOK, OutboundExists, Outbound
    <2>2. ~ attempt[i].outbound
      BY <1>1, <1>8, <2>1 DEF Materialize, At, AttemptOK
    <2>3. Data' /\ \A s \in Reactions : Onward(s)
      BY <1>1, <1>2, <1>3, <1>8, <2>1, <2>2, ReplyData DEF Materialize
    <2> QED BY <1>4, <1>8, <2>3 DEF Materialize
  <1>9. CASE FinalizeReplied(i)
    <2>1. reaction[r].state = "REPLIED"
      BY <1>1, <1>9 DEF FinalizeReplied, At, AttemptOK
    <2>2. Data' /\ \A s \in Reactions : Onward(s)
      BY <1>1, <1>3, <1>9, <2>1, QuietData DEF FinalizeReplied, conversation
    <2> QED BY <1>4, <1>9, <2>2 DEF FinalizeReplied
  <1> QED BY <1>5, <1>6, <1>7, <1>8, <1>9

(* Every step keeps the invariant, and takes nothing back.                  *)
LEMMA InvStep ==
    ASSUME Inv, [Next]_vars
    PROVE  Inv' /\ \A r \in Reactions : Onward(r)
  <1>1. CASE UNCHANGED vars
    <2>1. TypeOK' /\ Data
      BY <1>1 DEF vars, Inv, Data, TypeOK
    <2>2. Data' /\ \A r \in Reactions : Onward(r)
      BY <1>1, <2>1, QuietData DEF vars
    <2> QED BY <1>1, <2>1, <2>2, OthersKnow DEF vars, Inv
  <1>2. ASSUME NEW i \in Messages, Handle(i)
        PROVE  Inv' /\ \A r \in Reactions : Onward(r)
    BY <1>2, AcquireStep, AttemptStep, DecisionStep
       DEF Handle, CommitAcceptedProposal, CompleteCommunication
  <1> QED BY <1>1, <1>2, ClientStep, AttemptStep DEF Next

(* The invariant of every behaviour.                                        *)
THEOREM Invariance == Spec => []Inv
  <1>1. Inv /\ [Next]_vars => Inv'
    BY InvStep
  <1> QED BY InitInv, <1>1, PTL DEF Spec

------------------------------------------------------------------------------
(* What the runs check.                                                     *)

(* Type correctness of every behaviour.                                     *)
THEOREM TypeCorrect == Spec => []TypeOK
  <1>1. Inv => TypeOK
    BY DEF Inv, Data
  <1> QED BY <1>1, Invariance, PTL

(* One reaction in progress, every consumed message considered by exactly   *)
(* one decision, and one numbering of what was said.                        *)
THEOREM ConversationKept == Spec => []ConversationIsKept
  <1> SUFFICES Inv => ConversationIsKept
    BY Invariance, PTL
  <1> SUFFICES ASSUME Inv PROVE ConversationIsKept
    OBVIOUS
  <1>1. OneOpenReaction
    BY DEF Inv, Data, RowOK, OneOpenReaction
  <1>2. ConsumedWasConsidered
    <2> SUFFICES ASSUME NEW f \in facts, f.direction = "INBOUND", f.sequence <= mailbox.consumed
                 PROVE  \E r \in Reactions :
                          /\ f.of \in decided[r]
                          /\ \A s \in Reactions \ {r} : f.of \notin decided[s]
      BY DEF ConsumedWasConsidered
    <2>1. PICK r \in Reactions : f.of \in decided[r]
      BY DEF Inv, Data, DecidedOK, Inbound
    <2> QED BY <2>1 DEF Inv, Data, DecidedOK
  <1>3. NumberedInOrder
    BY DEF Inv, Data, FactsOK, NumberedInOrder, Outbound
  <1> QED BY <1>1, <1>2, <1>3 DEF ConversationIsKept, Inv, Data

(* A reaction is REPLIED exactly when its one outbound fact exists.         *)
THEOREM OneReply == Spec => []ExactlyOneReply
  <1> SUFFICES Inv => ExactlyOneReply
    BY Invariance, PTL
  <1> SUFFICES ASSUME Inv, NEW r \in Reactions
               PROVE  /\ reaction[r].state = "REPLIED" <=> OutboundExists(r)
                      /\ OutboundExists(r) => commit[r] # None
                      /\ \A f, g \in facts :
                           f.direction = "OUTBOUND" /\ g.direction = "OUTBOUND" /\ f.of = r /\ g.of = r
                             => f = g
    BY DEF ExactlyOneReply
  <1>1. OutboundExists(r) => reaction[r].state = "REPLIED"
    BY DEF OutboundExists, Inv, Data, FactsOK, Outbound
  <1>2. RowOK(r) /\ FactsOK
    BY DEF Inv, Data
  <1> QED BY <1>1, <1>2 DEF RowOK, FactsOK

------------------------------------------------------------------------------
(* The refinement of ConversationReplies.                                   *)

Known == {m \in Messages : Accepted(m)}
Owed == IF Committed = {} THEN None ELSE Reply(CHOOSE r \in Committed : TRUE)
Sent == {Reply(r) : r \in Replied}
Pending == MessagesOf(PendingInbound(mailbox.consumed))

(* While no answer is owed, all that is above the cursor waits.             *)
LEMMA NothingOwed ==
    ASSUME Committed = {}
    PROVE  Owed = None /\ Undecided = {m \in Pending : TRUE}
  BY DEF Owed, Undecided, Pending

(* At most one answer is owed; what it answers no longer waits.             *)
LEMMA OneOwed ==
    ASSUME Inv, NEW r \in Committed
    PROVE  /\ Committed = {r} /\ Owed = Reply(r) /\ Owed # None
           /\ decided[r] = Context(r)
           /\ Undecided = {m \in Pending : m \notin decided[r]}
  <1>1. r \in Reactions /\ reaction[r].state = "COMMUNICATION_COMMITTED"
    BY DEF Committed
  <1>2. Committed = {r}
    <2>1. \A s \in Committed : mailbox.open = s
      BY DEF Committed, Inv, Data, RowOK, InProgress
    <2> QED BY <2>1
  <1>3. (CHOOSE s \in Committed : TRUE) = r
    BY <1>2
  <1>4. Owed = Reply(r)
    BY <1>2, <1>3 DEF Owed
  <1>5. Reply(r) # None
    <2>1. decided[r] \in SUBSET Messages /\ commit[r] \in Contents
      BY <1>1 DEF Inv, Data, TypeOK, RowOK
    <2>2. Reply(r) \in [to : SUBSET Messages, content : Contents]
      BY <2>1 DEF Reply
    <2> QED BY <2>2, NoneAssumption
  <1>6. decided[r] = Context(r)
    BY <1>1 DEF Inv, Data, RowOK
  <1> QED BY <1>2, <1>4, <1>5, <1>6 DEF Undecided, Pending

(* What the fence on the mailbox revision says: an open reaction decides on *)
(* everything that waits, and something does.                               *)
LEMMA FreshDecidesAll ==
    ASSUME Inv, NEW r \in Reactions, reaction[r].state = "OPEN", Fresh(r)
    PROVE  /\ Committed = {} /\ Undecided = Context(r) /\ Context(r) # {}
           /\ authority.desired = "RUNNING"
           /\ \A f \in facts : Inbound(f) => f.sequence <= reaction[r].through
  <1>1. RowOK(r) /\ mailbox.open = r
    BY DEF Inv, Data, Fresh
  <1>2. \A f \in facts : Inbound(f) => f.sequence <= reaction[r].through
    BY <1>1 DEF RowOK, Fresh
  <1>3. Committed = {}
    <2>1. \A s \in Reactions \ {r} : reaction[s].state \notin InProgress
      BY <1>1, NeverDecided DEF Inv
    <2> QED BY <2>1 DEF Committed, InProgress
  <1>4. Context(r) = Pending
    BY <1>2 DEF Context, Pending, PendingInbound, Inbound
  <1>5. Context(r) # {}
    <2>1. PICK f \in facts : Inbound(f) /\ f.sequence = reaction[r].through
      BY <1>1 DEF RowOK, InProgress
    <2>2. /\ mailbox.consumed < reaction[r].through
          /\ mailbox.consumed \in Nat /\ reaction[r].through \in Nat
      BY <1>1 DEF RowOK, InProgress, Inv, Data, TypeOK, Reaction
    <2>3. f.sequence > mailbox.consumed /\ f.sequence <= reaction[r].through
      BY <2>1, <2>2
    <2>4. f.of \in Context(r)
      BY <2>1, <2>3, ContextIs
    <2> QED BY <2>4
  <1> QED BY <1>2, <1>3, <1>4, <1>5, NothingOwed DEF Fresh, Current

(* A step that neither decides nor sends.                                   *)
LEMMA Stutters ==
    ASSUME UNCHANGED <<facts, commit, decided>>, mailbox'.consumed = mailbox.consumed,
           Committed' = Committed
    PROVE  UNCHANGED <<Known, Undecided, Owed, Sent>>
  <1>1. UNCHANGED Known
    BY DEF Known, Accepted
  <1>2. UNCHANGED Undecided
    BY DEF Undecided, PendingInbound, MessagesOf
  <1>3. UNCHANGED Owed
    BY DEF Owed, Reply
  <1>4. UNCHANGED Sent
    BY DEF Sent, Replied, Reply, OutboundExists
  <1> QED BY <1>1, <1>2, <1>3, <1>4

(* The answers sent change only where a reaction is decided or replied.     *)
LEMMA SentKept ==
    ASSUME Inv, NEW r \in Reactions, reaction[r].state # "REPLIED",
           \A s \in Reactions : OutboundExists(s)' <=> OutboundExists(s),
           \A s \in Reactions \ {r} : decided'[s] = decided[s] /\ commit'[s] = commit[s]
    PROVE  Sent' = Sent
  <1>1. Replied' = Replied
    BY DEF Replied
  <1>2. r \notin Replied
    BY DEF Replied, OutboundExists, Inv, Data, FactsOK, Outbound
  <1>3. \A s \in Replied : Reply(s)' = Reply(s)
    BY <1>2 DEF Replied, Reply
  <1>4. Sent = {Reply(s) : s \in Replied} /\ Sent' = {Reply(s)' : s \in Replied'}
    BY DEF Sent
  <1> QED BY <1>1, <1>3, <1>4

IsRunning == authority.desired = "RUNNING"

(* Accepting a message adds it to what is known and to what waits.          *)
LEMMA AcceptMaps ==
    ASSUME Inv, Inv', NEW m \in Messages, AcceptInbound(m)
    PROVE  /\ IsRunning /\ m \notin Known
           /\ Known' = Known \cup {m} /\ Undecided' = Undecided \cup {m}
           /\ IsRunning' = IsRunning /\ Owed' = Owed /\ Sent' = Sent
  <1> DEFINE n == Fact(last + 1, "INBOUND", m)
  <1>1. /\ n.sequence = last + 1 /\ n.direction = "INBOUND" /\ n.of = m
        /\ facts' = facts \cup {n}
    BY NewFact DEF AcceptInbound, Inv
  <1>2. /\ UNCHANGED <<authority, reaction, commit, decided>>
        /\ mailbox'.consumed = mailbox.consumed
        /\ ~ Accepted(m) /\ IsRunning
    BY DEF AcceptInbound, Admissible, IsRunning, subject, Inv, Data, TypeOK
  <1>3. n.sequence > mailbox.consumed
    BY <1>1 DEF Inv, Data, TypeOK, DecidedOK
  <1>4. \A o : Accepted(o)' <=> Accepted(o) \/ o = m
    BY <1>1 DEF Accepted
  <1>5. Known' = Known \cup {m} /\ m \notin Known
    BY <1>2, <1>4 DEF Known
  <1>6. PendingInbound(mailbox.consumed)' = PendingInbound(mailbox.consumed) \cup {n}
    BY <1>1, <1>2, <1>3 DEF PendingInbound
  <1>7. Pending' = Pending \cup {m}
    BY <1>1, <1>6 DEF Pending, MessagesOf
  <1>8. Committed' = Committed
    BY <1>2 DEF Committed
  <1>9. \A r \in Committed : m \notin decided[r]
    BY <1>2 DEF Committed, Inv, Data, DecidedOK, Accepted, Inbound
  <1>10. Undecided' = {o \in Pending' : \A r \in Committed' : o \notin decided'[r]}
    BY DEF Undecided, Pending
  <1>11. Undecided' = Undecided \cup {m}
    BY <1>2, <1>7, <1>8, <1>9, <1>10 DEF Undecided, Pending
  <1>12. Owed' = Owed
    BY <1>2, <1>8 DEF Owed, Reply
  <1>13. \A r \in Reactions : OutboundExists(r)' <=> OutboundExists(r)
    BY <1>1 DEF OutboundExists
  <1>14. Replied' = Replied
    BY <1>13 DEF Replied
  <1>15. Sent' = Sent
    BY <1>2, <1>14 DEF Sent, Reply
  <1> QED BY <1>2, <1>5, <1>11, <1>12, <1>15 DEF IsRunning

(* Staying silent decides on all that waits, and owes nothing.              *)
LEMMA SilenceMaps ==
    ASSUME Inv, Inv', NEW i \in Messages, CommitSilence(i)
    PROVE  /\ IsRunning /\ Owed = None /\ Undecided # {} /\ Undecided' = {} /\ Owed' = None
           /\ IsRunning' = IsRunning /\ Known' = Known /\ Sent' = Sent
  <1> DEFINE r == attempt[i].reaction
  <1>1. AttemptOK(i) /\ Data /\ reaction[r].state = "OPEN" /\ Fresh(r)
    BY DEF Inv, CommitSilence
  <1>2. r \in Reactions
    BY <1>1 DEF CommitSilence, At, AttemptOK
  <1>3. /\ Committed = {} /\ Undecided = Context(r) /\ Context(r) # {} /\ IsRunning
        /\ \A f \in facts : Inbound(f) => f.sequence <= reaction[r].through
    BY <1>1, <1>2, FreshDecidesAll DEF IsRunning
  <1>4. /\ UNCHANGED <<authority, commit, facts>>
        /\ Advance(r) /\ ReactionTo(r, "NO_COMMUNICATION")
        /\ \A s \in Reactions \ {r} : decided'[s] = decided[s]
    BY DEF CommitSilence, conversation, Inv, Data, TypeOK
  <1>5. /\ mailbox'.consumed = reaction[r].through /\ reaction[r].through \in Nat
        /\ \A f \in facts : f.sequence \in Nat
    BY <1>1, <1>2, <1>4, Advanced DEF InProgress
  <1>6. Pending' = {}
    BY <1>3, <1>4, <1>5 DEF Pending, MessagesOf, PendingInbound, Inbound
  <1>7. Undecided' = {}
    BY <1>6 DEF Undecided, Pending
  <1>8. Committed' = {}
    BY <1>2, <1>3, <1>4 DEF Committed, ReactionTo, Inv, Data, TypeOK
  <1>9. Owed = None /\ Owed' = None
    BY <1>3, <1>8 DEF Owed
  <1>10. Known' = Known
    BY <1>4 DEF Known, Accepted
  <1>11. Sent' = Sent
    BY <1>1, <1>2, <1>4, SentKept DEF OutboundExists
  <1> QED BY <1>3, <1>4, <1>7, <1>9, <1>10, <1>11 DEF IsRunning

(* Answering decides on all that waits, and owes that answer.               *)
LEMMA CommunicateMaps ==
    ASSUME Inv, Inv', NEW i \in Messages, CommitCommunication(i)
    PROVE  /\ IsRunning /\ Owed = None /\ Undecided # {} /\ Undecided' = {}
           /\ \E c \in Contents : Owed' = [to |-> Undecided, content |-> c]
           /\ IsRunning' = IsRunning /\ Known' = Known /\ Sent' = Sent
  <1> DEFINE r == attempt[i].reaction
  <1>1. AttemptOK(i) /\ Data /\ reaction[r].state = "OPEN" /\ Fresh(r)
    BY DEF Inv, CommitCommunication
  <1>2. r \in Reactions /\ attempt[i].context = Context(r)
    BY <1>1 DEF CommitCommunication, At, AttemptOK
  <1>3. Committed = {} /\ Undecided = Context(r) /\ Context(r) # {} /\ IsRunning
    BY <1>1, <1>2, FreshDecidesAll DEF IsRunning
  <1>4. /\ UNCHANGED <<authority, facts, mailbox>>
        /\ ReactionTo(r, "COMMUNICATION_COMMITTED")
        /\ decided'[r] = Context(r)
        /\ \A s \in Reactions \ {r} : decided'[s] = decided[s] /\ commit'[s] = commit[s]
    BY <1>2 DEF CommitCommunication, conversation, Inv, Data, TypeOK
  <1>5. commit[r] = None /\ attempt[i].proposal \in Contents
    BY <1>1, <1>2 DEF Data, RowOK, CommitCommunication, TypeOK, Attempt
  <1>6. commit'[r] = attempt[i].proposal
    BY <1>2, <1>5 DEF CommitCommunication, Inv, Data, TypeOK
  <1>7. r \in Committed'
    BY <1>2, <1>4 DEF Committed, ReactionTo, Inv, Data, TypeOK, Reaction
  <1>8. Committed' = {r}
    BY <1>2, <1>3, <1>4, <1>7 DEF Committed, ReactionTo, Inv, Data, TypeOK, Reaction
  <1>9. Owed' = [to |-> decided'[r], content |-> commit'[r]]
    <2>1. (CHOOSE s \in Committed' : TRUE) = r
      BY <1>8
    <2>2. Owed' = (IF Committed' = {} THEN None
                   ELSE [to |-> decided'[CHOOSE s \in Committed' : TRUE],
                         content |-> commit'[CHOOSE s \in Committed' : TRUE]])
      BY DEF Owed, Reply
    <2> QED BY <1>8, <2>1, <2>2
  <1>10. Owed' = [to |-> Undecided, content |-> attempt[i].proposal]
    BY <1>3, <1>4, <1>6, <1>9
  <1>11. Undecided' = {}
    <2>1. Pending' = Pending /\ Pending = Undecided
      BY <1>3, <1>4, NothingOwed DEF Pending, MessagesOf, PendingInbound
    <2>2. Undecided' = {m \in Pending' : \A s \in Committed' : m \notin decided'[s]}
      BY DEF Undecided, Pending
    <2> QED BY <1>3, <1>4, <1>8, <2>1, <2>2
  <1>12. Owed = None
    BY <1>3 DEF Owed
  <1>13. Known' = Known
    BY <1>4 DEF Known, Accepted
  <1>14. Sent' = Sent
    BY <1>1, <1>2, <1>4, SentKept DEF OutboundExists
  <1> QED BY <1>3, <1>4, <1>5, <1>10, <1>11, <1>12, <1>13, <1>14 DEF IsRunning

(* The reply sends what was owed; what came since still waits.              *)
LEMMA ReplyMaps ==
    ASSUME Inv, Inv', NEW i \in Messages, Materialize(i)
    PROVE  /\ Owed # None /\ Owed' = None /\ Sent' = Sent \cup {Owed}
           /\ IsRunning' = IsRunning /\ Known' = Known /\ Undecided' = Undecided
  <1> DEFINE r == attempt[i].reaction
             n == Fact(last + 1, "OUTBOUND", r)
  <1>1. AttemptOK(i) /\ Data /\ reaction[r].state = "COMMUNICATION_COMMITTED"
    BY DEF Inv, Materialize
  <1>2. r \in Reactions /\ r \in Committed
    BY <1>1 DEF Materialize, At, AttemptOK, Committed
  <1>3. ~ OutboundExists(r) /\ ~ attempt[i].outbound
    BY <1>1 DEF Materialize, Data, FactsOK, OutboundExists, Outbound, At, AttemptOK
  <1>4. /\ UNCHANGED <<authority, commit, decided>>
        /\ AppendFact("OUTBOUND", r) /\ Advance(r) /\ ReactionTo(r, "REPLIED")
    BY <1>3 DEF Materialize
  <1>5. /\ n.sequence = last + 1 /\ n.direction = "OUTBOUND" /\ n.of = r
        /\ facts' = facts \cup {n}
    BY <1>1, <1>2, <1>4, NewFact
  <1>6. /\ Committed = {r} /\ Owed = Reply(r) /\ Owed # None
        /\ decided[r] = Context(r)
        /\ Undecided = {m \in Pending : m \notin decided[r]}
    BY <1>2, OneOwed
  <1>7. /\ mailbox'.consumed = reaction[r].through /\ mailbox.consumed < reaction[r].through
        /\ reaction[r].through \in Nat /\ mailbox.consumed \in Nat
        /\ \A f \in facts : f.sequence \in Nat
    BY <1>1, <1>2, <1>4, Advanced DEF InProgress
  <1>8. Committed' = {}
    BY <1>2, <1>4, <1>6 DEF Committed, ReactionTo, Inv, Data, TypeOK
  <1>9. Owed' = None
    BY <1>8 DEF Owed
  <1>10. Undecided' = Undecided
    <2>1. Undecided' = Pending'
      BY <1>8 DEF Undecided, Pending
    <2>2. \A m : m \in Pending' <=> \E f \in facts : /\ Inbound(f) /\ f.of = m
                                                     /\ f.sequence > reaction[r].through
      BY <1>5, <1>7 DEF Pending, MessagesOf, PendingInbound, Inbound
    <2>3. \A m : m \in Pending <=> \E f \in facts : /\ Inbound(f) /\ f.of = m
                                                    /\ f.sequence > mailbox.consumed
      BY DEF Pending, MessagesOf, PendingInbound, Inbound
    <2>4. ASSUME NEW m \in Pending, m \notin Context(r) PROVE m \in Pending'
      BY <1>7, <2>2, <2>3, <2>4, ContextIs
    <2>5. ASSUME NEW m \in Pending' PROVE m \in Pending /\ m \notin Context(r)
      <3>1. PICK f \in facts : Inbound(f) /\ f.of = m /\ f.sequence > reaction[r].through
        BY <2>2
      <3>2. m \in Pending
        BY <1>7, <2>3, <3>1
      <3>3. ASSUME m \in Context(r) PROVE FALSE
        <4>1. PICK g \in facts : Inbound(g) /\ g.of = m /\ g.sequence <= reaction[r].through
          BY <3>3, ContextIs
        <4>2. f = g
          BY <3>1, <4>1 DEF Inv, Data, FactsOK, Inbound
        <4> QED BY <1>7, <3>1, <4>1, <4>2
      <3> QED BY <3>2, <3>3
    <2> QED BY <1>6, <2>1, <2>4, <2>5
  <1>11. Known' = Known
    BY <1>5 DEF Known, Accepted
  <1>12. Sent' = Sent \cup {Owed}
    <2>1. \A s \in Reactions : OutboundExists(s)' <=> OutboundExists(s) \/ s = r
      BY <1>5 DEF OutboundExists
    <2>2. Replied' = Replied \cup {r}
      BY <1>2, <2>1 DEF Replied
    <2>3. \A s : Reply(s)' = Reply(s)
      BY <1>4 DEF Reply
    <2>4. Sent = {Reply(s) : s \in Replied} /\ Sent' = {Reply(s)' : s \in Replied'}
      BY DEF Sent
    <2> QED BY <1>6, <2>2, <2>3, <2>4
  <1> QED BY <1>4, <1>6, <1>9, <1>10, <1>11, <1>12 DEF IsRunning

(* What every other step of the conversation leaves to the client.          *)
LEMMA OtherSteps ==
    ASSUME Inv, Inv', NEW i \in Messages,
           \/ Acquire(i) \/ ReadProgress(i) \/ Generate(i) \/ CommitSuperseded(i)
           \/ CommitAlreadyDecided(i) \/ Express(i) \/ MaterializedBefore(i) \/ FinalizeReplied(i)
           \/ Finish(i) \/ \E kind \in FaultKinds : EndWithoutOutcome(i, kind)
    PROVE  UNCHANGED <<Known, Undecided, Owed, Sent, IsRunning>>
  <1>0. AttemptOK(i) /\ Data
    BY DEF Inv
  <1>1. UNCHANGED <<authority, facts, commit, decided>>
    BY DEF Acquire, AcquireOwned, AcquireStale, AcquireOpen, AcquireNew, AcquireNothing,
       ReadProgress, Generate, CommitSuperseded, CommitAlreadyDecided, Express, MaterializedBefore,
       FinalizeReplied, Finish, EndWithoutOutcome, subject, conversation
  <1> SUFFICES mailbox'.consumed = mailbox.consumed /\ Committed' = Committed
    BY <1>1, Stutters DEF IsRunning
  <1>2. ASSUME UNCHANGED <<mailbox, reaction>>
        PROVE  mailbox'.consumed = mailbox.consumed /\ Committed' = Committed
    BY <1>2 DEF Committed
  <1>3. ASSUME NEW r \in Reactions, reaction[r].state = "OPEN", Supersede(r)
        PROVE  mailbox'.consumed = mailbox.consumed /\ Committed' = Committed
    BY <1>3 DEF Supersede, Release, ReactionTo, Committed, Inv, Data, TypeOK, Reaction
  <1>4. ASSUME NEW r \in Reactions, AcquireNew(i, r)
        PROVE  mailbox'.consumed = mailbox.consumed /\ Committed' = Committed
    <2>1. PICK f : reaction' = [reaction EXCEPT ![r] =
                 [state |-> "OPEN", mailbox |-> mailbox.revision, through |-> f.sequence,
                  authority |-> authority.revision, owner |-> i]]
      BY <1>4 DEF AcquireNew
    <2>2. reaction[r].state = "ABSENT" /\ mailbox' = [mailbox EXCEPT !.open = r]
      BY <1>4 DEF AcquireNew
    <2> QED BY <2>1, <2>2 DEF Committed, Inv, Data, TypeOK
  <1>5. CASE Acquire(i)
    <2>1. ASSUME AcquireNothing(i)
          PROVE  mailbox'.consumed = mailbox.consumed /\ Committed' = Committed
      BY <2>1 DEF AcquireNothing, subject, Committed, Inv, Data, TypeOK
    <2> QED BY <1>2, <1>3, <1>4, <1>5, <2>1
        DEF Acquire, AcquireOwned, AcquireStale, AcquireOpen, subject
  <1>6. CASE CommitSuperseded(i)
    <2>1. attempt[i].reaction \in Reactions
      BY <1>0, <1>6 DEF CommitSuperseded, At, AttemptOK
    <2> QED BY <1>3, <1>6, <2>1 DEF CommitSuperseded
  <1>7. CASE FinalizeReplied(i)
    BY <1>0, <1>2, <1>7 DEF FinalizeReplied, At, AttemptOK
  <1>8. CASE \/ ReadProgress(i) \/ Generate(i) \/ CommitAlreadyDecided(i) \/ Express(i)
             \/ MaterializedBefore(i) \/ Finish(i) \/ \E kind \in FaultKinds : EndWithoutOutcome(i, kind)
    BY <1>2, <1>8 DEF ReadProgress, Generate, CommitAlreadyDecided, Express, MaterializedBefore,
       Finish, EndWithoutOutcome, subject, conversation
  <1> QED BY <1>5, <1>6, <1>7, <1>8

(* Every step of the conversation is a step of the promise, or a stutter.   *)
LEMMA RepliesStep ==
    ASSUME Inv, Inv', [Next]_vars
    PROVE  [Replies!Next]_(Replies!vars)
  <1> USE DEF Known, Owed, Sent, IsRunning
  <1>1. ASSUME UNCHANGED <<Known, Undecided, Owed, Sent, IsRunning>>
        PROVE  [Replies!Next]_(Replies!vars)
    BY <1>1 DEF Replies!vars
  <1>2. ASSUME NEW desired \in {"STOPPED", "RUNNING"}, SetDesiredState(desired)
        PROVE  [Replies!Next]_(Replies!vars)
    <2>1. UNCHANGED <<Known, Undecided, Owed, Sent>>
      BY <1>2, Stutters DEF SetDesiredState, conversation, Committed
    <2>2. (authority.desired = "RUNNING")' = ~ (authority.desired = "RUNNING")
      BY <1>2 DEF SetDesiredState, Inv, Data, TypeOK
    <2>3. Replies!Switch
      BY <2>1, <2>2 DEF Replies!Switch
    <2> QED BY <2>3 DEF Replies!Next
  <1>3. ASSUME NEW m \in Messages, AcceptInbound(m) PROVE [Replies!Next]_(Replies!vars)
    <2>1. Replies!Accept(m)
      BY <1>3, AcceptMaps DEF Replies!Accept
    <2> QED BY <2>1 DEF Replies!Next
  <1>4. ASSUME NEW m \in Messages, PrepareInbound(m) \/ AcceptNothing(m)
        PROVE  [Replies!Next]_(Replies!vars)
    <2>1. UNCHANGED <<Known, Undecided, Owed, Sent, IsRunning>>
      BY <1>4, Stutters DEF PrepareInbound, AcceptNothing, subject, conversation, Committed
    <2> QED BY <1>1, <2>1
  <1>5. ASSUME NEW i \in Messages, CommitSilence(i) \/ CommitCommunication(i)
        PROVE  [Replies!Next]_(Replies!vars)
    <2>1. Replies!Decide
      BY <1>5, SilenceMaps, CommunicateMaps DEF Replies!Decide
    <2> QED BY <2>1 DEF Replies!Next
  <1>6. ASSUME NEW i \in Messages, Materialize(i) PROVE [Replies!Next]_(Replies!vars)
    <2>1. Replies!Send
      BY <1>6, ReplyMaps DEF Replies!Send
    <2> QED BY <2>1 DEF Replies!Next
  <1>7. ASSUME NEW i \in Messages, Handle(i) PROVE [Replies!Next]_(Replies!vars)
    BY <1>1, <1>5, <1>6, <1>7, OtherSteps
       DEF Handle, CommitAcceptedProposal, CompleteCommunication
  <1>8. CASE UNCHANGED vars
    <2>1. UNCHANGED <<Known, Undecided, Owed, Sent, IsRunning>>
      BY <1>8, Stutters DEF vars, Committed
    <2> QED BY <1>1, <2>1
  <1>9. ASSUME NEW i \in Messages, NEW kind \in FaultKinds, EndWithoutOutcome(i, kind)
        PROVE  [Replies!Next]_(Replies!vars)
    BY <1>1, <1>9, OtherSteps
  <1> QED BY <1>2, <1>3, <1>4, <1>7, <1>8, <1>9 DEF Next

(* The empty conversation promises nothing.                                 *)
LEMMA RepliesInit == Init => Replies!Init
  BY DEF Init, Replies!Init, Accepted, Undecided, PendingInbound, MessagesOf, Committed, Replied,
         OutboundExists

(* However attempts interleave, fail and are repeated, the conversation is  *)
(* one whose every message is decided on once, together with all that wait, *)
(* and whose every decided answer is sent once, as decided.                 *)
THEOREM RepliesImplemented == Spec => ImplementsReplies
  <1>1. Inv /\ Inv' /\ [Next]_vars => [Replies!Next]_(Replies!vars)
    BY RepliesStep
  <1> QED BY Invariance, RepliesInit, <1>1, PTL DEF Spec, ImplementsReplies, Replies!Spec
=============================================================================
