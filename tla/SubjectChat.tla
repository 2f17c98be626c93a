----------------------------- MODULE SubjectChat ------------------------------
(***************************************************************************)
(* Messaging under the Subject Chat routes: the Administrator's messages   *)
(* are accepted once and numbered in the conversation with the replies of  *)
(* the Subject, and readers page through the numbers with a cursor.        *)
(*                                                                         *)
(* A client repeats a message it has no answer for, while the first attempt*)
(* may still be running, committed or lost.  Every writer locks the        *)
(* conversation's row before it looks at what there is, except a reply,    *)
(* which looks first.  Transactions are READ COMMITTED; a unique index     *)
(* stands behind the number, the client's key and the reply's commit.      *)
(***************************************************************************)
EXTENDS Naturals, FiniteSets

CONSTANTS
  Attempts,   \* requests to send a message, repeated ones included
  Speakers,   \* materialisations of a reply
  Readers,    \* clients that read the conversation
  Keys,       \* clientMessageId
  Replies,    \* CommunicationCommits
  Contents,   \* canonical inputs, told apart by their digest
  None,
  Limit,      \* messages of a page
  MaxSends,   \* messages sent
  MaxFaults   \* transactions that fail, surely or uncertainly

VARIABLES
  claimed,       \* there is an Administrator
  conversation,  \* the conversation's row
  facts,         \* committed MessageFacts
  holder,        \* the transaction that locks the conversation's row
  tx,            \* writer -> its request and where its transaction is
  reader,        \* reader -> its page being read, its cursor, and what it has seen
  sends, faults

vars == <<claimed, conversation, facts, holder, tx, reader, sends, faults>>

Writers == Attempts \cup Speakers

Fact == [sequence : Nat \ {0}, direction : {"INBOUND", "OUTBOUND"},
         key : Keys \cup Replies, content : Contents \cup {None}]

Tx ==
  [at : {"idle", "asked", "found", "locked", "numbered", "inserted", "answered"},
   key : Keys \cup Replies \cup {None}, content : Contents \cup {None}, sequence : Nat,
   answer : {None, "not_ready", "ACCEPTED", "EXISTING", "conflict", "duplicate", "failed"}]

TypeOK ==
  /\ claimed \in BOOLEAN
  /\ conversation \in [exists : BOOLEAN, last : Nat]
  /\ facts \subseteq Fact
  /\ holder \in Writers \cup {None}
  /\ tx \in [Writers -> Tx]
  /\ reader \in [Readers -> [at : {"idle", "reading"}, cursor : Nat, known : Nat, seen : SUBSET Nat]]
  /\ sends \in 0..MaxSends /\ faults \in 0..MaxFaults

Idle == [at |-> "idle", key |-> None, content |-> None, sequence |-> 0, answer |-> None]

Init ==
  /\ claimed \in BOOLEAN
  /\ conversation = [exists |-> FALSE, last |-> 0]
  /\ facts = {} /\ holder = None
  /\ tx = [w \in Writers |-> Idle]
  /\ reader = [r \in Readers |-> [at |-> "idle", cursor |-> 0, known |-> 0, seen |-> {}]]
  /\ sends = 0 /\ faults = 0

(***************************************************************************)
(* The conversation                                                        *)
(***************************************************************************)
(* ON CONFLICT DO NOTHING: an existing conversation stays as it is.  The   *)
(* installation has one Subject and one Administrator.                     *)
Materialized == conversation' = [conversation EXCEPT !.exists = TRUE]

administratorClaimed ==
  /\ ~claimed
  /\ claimed' = TRUE
  /\ UNCHANGED <<conversation, facts, holder, tx, reader, sends, faults>>

(* By a Host that starts, and after the first claim; what fails is not     *)
(* tried again before the next start.                                      *)
ensureCurrentConversation ==
  /\ claimed /\ ~conversation.exists
  /\ Materialized
  /\ UNCHANGED <<claimed, facts, holder, tx, reader, sends, faults>>

(***************************************************************************)
(* Writers                                                                 *)
(***************************************************************************)
Inbound(k) == {f \in facts : f.direction = "INBOUND" /\ f.key = k}
Outbound(m) == {f \in facts : f.direction = "OUTBOUND" /\ f.key = m}

Answered(w, answer) == tx' = [tx EXCEPT ![w].at = "answered", ![w].answer = answer]

(* Sent by a client that is authenticated.                                 *)
sendSubjectChatMessage(a, k, c) ==
  /\ tx[a].at \in {"idle", "answered"} /\ sends < MaxSends
  /\ tx' = [tx EXCEPT ![a] = [Idle EXCEPT !.at = "asked", !.key = k, !.content = c]]
  /\ sends' = sends + 1
  /\ UNCHANGED <<claimed, conversation, facts, holder, reader, faults>>

(* Read before the transaction, with what the Subject prepares.            *)
getConversationForAdministrator(a) ==
  /\ tx[a].at = "asked"
  /\ IF conversation.exists THEN tx' = [tx EXCEPT ![a].at = "found"] ELSE Answered(a, "not_ready")
  /\ UNCHANGED <<claimed, conversation, facts, holder, reader, sends, faults>>

(* A reply asks for its fact before it locks; there is one to speak of     *)
(* only when a Reaction has been committed, which takes a conversation.    *)
materializeOutbound(s, m) ==
  /\ tx[s].at = "idle" /\ conversation.exists
  /\ tx' = [tx EXCEPT ![s].key = m, ![s].at = IF Outbound(m) = {} THEN "found" ELSE "answered",
                      ![s].answer = IF Outbound(m) = {} THEN None ELSE "EXISTING"]
  /\ UNCHANGED <<claimed, conversation, facts, holder, reader, sends, faults>>

(* SELECT ... FOR UPDATE: the row as the last holder left it.              *)
Locks(w) ==
  /\ tx[w].at = "found" /\ holder = None
  /\ holder' = w
  /\ tx' = [tx EXCEPT ![w].at = "locked", ![w].sequence = conversation.last + 1]
  /\ UNCHANGED <<claimed, conversation, facts, reader, sends, faults>>

Unlocked(w) == IF holder = w THEN holder' = None ELSE UNCHANGED holder

readInboundByClientId(a) ==
  /\ tx[a].at = "locked" /\ a \in Attempts
  /\ IF Inbound(tx[a].key) = {}
     THEN tx' = [tx EXCEPT ![a].at = "numbered"] /\ UNCHANGED holder
     ELSE /\ \E f \in Inbound(tx[a].key) :
               Answered(a, IF f.content = tx[a].content THEN "EXISTING" ELSE "conflict")
          /\ Unlocked(a)
  /\ UNCHANGED <<claimed, conversation, facts, reader, sends, faults>>

(* A transaction whose number, key or commit another one has inserted      *)
(* waits for its end, and fails if it has committed.                       *)
SameIndex(w, f) == f.sequence = tx[w].sequence \/ f.key = tx[w].key
Ahead(w) == {v \in Writers \ {w} : tx[v].at = "inserted" /\ SameIndex(w, tx[v])}

Inserts(w) ==
  /\ tx[w].at = IF w \in Attempts THEN "numbered" ELSE "locked"
  /\ Ahead(w) = {}
  /\ IF \E f \in facts : SameIndex(w, f)
     THEN Answered(w, "duplicate") /\ Unlocked(w)
     ELSE tx' = [tx EXCEPT ![w].at = "inserted"] /\ UNCHANGED holder
  /\ UNCHANGED <<claimed, conversation, facts, reader, sends, faults>>

FactOf(w) ==
  [sequence |-> tx[w].sequence, key |-> tx[w].key, content |-> tx[w].content,
   direction |-> IF w \in Attempts THEN "INBOUND" ELSE "OUTBOUND"]

(* The fact, the number and what the Subject makes of it, in one.          *)
Written(w) ==
  /\ facts' = facts \cup {FactOf(w)}
  /\ conversation' = [conversation EXCEPT !.last = tx[w].sequence]
  /\ Unlocked(w)

Commits(w) ==
  /\ tx[w].at = "inserted"
  /\ Written(w)
  /\ Answered(w, "ACCEPTED")
  /\ UNCHANGED <<claimed, reader, sends, faults>>

(* A failure rolls the transaction back; where it is the commit that       *)
(* fails, it may have been done all the same.                              *)
TransactionFails(w) ==
  /\ faults < MaxFaults /\ faults' = faults + 1
  /\ tx[w].at \in {"found", "locked", "numbered", "inserted"}
  /\ Answered(w, "failed")
  /\ \/ Unlocked(w) /\ UNCHANGED <<facts, conversation>>
     \/ tx[w].at = "inserted" /\ Written(w)
  /\ UNCHANGED <<claimed, reader, sends>>

(***************************************************************************)
(* Readers                                                                 *)
(***************************************************************************)
(* The conversation is read first, and the page after it.                  *)
listSubjectChatMessages(r) ==
  /\ reader[r].at = "idle" /\ conversation.exists
  /\ reader' = [reader EXCEPT ![r].at = "reading", ![r].known = conversation.last]
  /\ UNCHANGED <<claimed, conversation, facts, holder, tx, sends, faults>>

Page(after) ==
  {n \in {f.sequence : f \in facts} :
     n > after /\ Cardinality({f \in facts : f.sequence > after /\ f.sequence < n}) < Limit}

(* Mutant: the next page starts after what the conversation was at.        *)
nextCursorOfConversation(r) == reader[r].known

(* After the last message of a full page; a page that is not full gives    *)
(* none, and the client that wants more asks again with the one it has.    *)
nextCursor(r) ==
  LET page == Page(reader[r].cursor) IN
  IF Cardinality(page) = Limit THEN CHOOSE n \in page : \A m \in page : m <= n
  ELSE reader[r].cursor

readMessagesPage(r) ==
  /\ reader[r].at = "reading"
  /\ reader' = [reader EXCEPT ![r].at = "idle", ![r].cursor = nextCursor(r),
                              ![r].seen = @ \cup Page(reader[r].cursor)]
  /\ UNCHANGED <<claimed, conversation, facts, holder, tx, sends, faults>>

Next ==
  \/ administratorClaimed \/ ensureCurrentConversation
  \/ \E a \in Attempts :
       \/ getConversationForAdministrator(a) \/ readInboundByClientId(a)
       \/ \E k \in Keys, c \in Contents : sendSubjectChatMessage(a, k, c)
  \/ \E s \in Speakers, m \in Replies : materializeOutbound(s, m)
  \/ \E w \in Writers : Locks(w) \/ Inserts(w) \/ Commits(w) \/ TransactionFails(w)
  \/ \E r \in Readers : listSubjectChatMessages(r) \/ readMessagesPage(r)

Spec == Init /\ [][Next]_vars

(***************************************************************************)
(* Properties                                                              *)
(***************************************************************************)
(* Paging misses nothing: what a reader has seen is, without a gap, the    *)
(* beginning of the conversation, and no message ever appears behind a     *)
(* cursor, however writers commit, fail and repeat between two pages.      *)
NothingSkipped ==
  /\ {f.sequence : f \in facts} = 1..conversation.last
  /\ \A r \in Readers :
       /\ reader[r].seen = 1..Cardinality(reader[r].seen)
       /\ 1..reader[r].cursor \subseteq reader[r].seen

(* A message a client was told is accepted, or was already, is there once, *)
(* with the content the client sent.                                       *)
AcceptedIsKept ==
  \A a \in Attempts :
    tx[a].answer \in {"ACCEPTED", "EXISTING"} =>
      /\ Cardinality(Inbound(tx[a].key)) = 1
      /\ \E f \in Inbound(tx[a].key) : f.content = tx[a].content

(* Repeating a message is safe while another attempt is running, committed *)
(* or lost: it is refused only when its key carries other content, and is  *)
(* never the one that runs into an index.                                  *)
RetryIsAnswered ==
  \A a \in Attempts :
    /\ tx[a].answer # "duplicate"
    /\ tx[a].answer = "conflict" => \E f \in Inbound(tx[a].key) : f.content # tx[a].content

(* A conversation as its readers page through it and its writers retry.    *)
ChatIsComplete == TypeOK /\ NothingSkipped /\ AcceptedIsKept /\ RetryIsAnswered

(***************************************************************************)
(* The inductive invariant                                                 *)
(***************************************************************************)
(* The numbers of the facts are those up to the conversation's, and each   *)
(* has a key of its own.                                                   *)
FactsOK ==
  /\ \A f \in facts : f.sequence <= conversation.last
  /\ \A n \in 1..conversation.last : \E f \in facts : f.sequence = n
  /\ \A f, g \in facts : f.sequence = g.sequence \/ f.key = g.key => f = g
  /\ \A f \in facts : f.direction = "INBOUND" <=> f.key \in Keys

(* Who writes holds the conversation's row since before it read its number.*)
WriterOK(w) ==
  LET x == tx[w] IN
  /\ x.at \in {"locked", "numbered", "inserted"} <=> holder = w
  /\ holder = w => x.sequence = conversation.last + 1
  /\ x.at \notin {"idle", "asked"} => x.at = "answered" \/ x.key \in IF w \in Attempts THEN Keys ELSE Replies
  /\ x.at = "numbered" => w \in Attempts
  /\ x.at = "inserted" \/ x.at = "numbered" => \A f \in facts : f.key # x.key

(* What an attempt was told is so.                                         *)
AnswerOK(a) ==
  LET x == tx[a] IN
  /\ x.at # "idle" => x.key \in Keys /\ x.content \in Contents
  /\ x.at # "answered" => x.answer = None
  /\ x.answer # "duplicate"
  /\ x.answer \in {"ACCEPTED", "EXISTING"} => \E f \in Inbound(x.key) : f.content = x.content
  /\ x.answer = "conflict" => \E f \in Inbound(x.key) : f.content # x.content

(* What a reader has seen is the beginning of the conversation.            *)
ReaderOK(r) ==
  \E n \in 0..conversation.last : reader[r].seen = 1..n /\ reader[r].cursor <= n

Inv ==
  /\ TypeOK
  /\ FactsOK
  /\ \A w \in Writers : WriterOK(w)
  /\ \A a \in Attempts : AnswerOK(a)
  /\ \A r \in Readers : ReaderOK(r)
=============================================================================
