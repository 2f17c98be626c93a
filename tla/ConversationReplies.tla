-------------------------- MODULE ConversationReplies --------------------------
(***************************************************************************)
(* What a conversation promises its client, without mailbox revisions,     *)
(* Reactions or WorkItems: a message is accepted once; while the Subject   *)
(* runs it may decide, about everything that is waiting, to answer with    *)
(* one content or to stay silent; a decided answer is sent before the next *)
(* decision, once, and with the content decided.                           *)
(* Specified by specs/subject/reaction-behavior.md, REACT-002 to REACT-014.*)
(***************************************************************************)
CONSTANTS Messages, Contents,
    Nothing     \* not a reply

VARIABLES running, known, waiting, owed, sent
vars == <<running, known, waiting, owed, sent>>

Replies == [to : SUBSET Messages \ {{}}, content : Contents]

Init ==
    /\ running = FALSE
    /\ known = {} /\ waiting = {}
    /\ owed = Nothing
    /\ sent = {}

Switch ==
    /\ running' = ~ running
    /\ UNCHANGED <<known, waiting, owed, sent>>

Accept(m) ==
    /\ running
    /\ m \notin known
    /\ known' = known \cup {m}
    /\ waiting' = waiting \cup {m}
    /\ UNCHANGED <<running, owed, sent>>

Decide ==
    /\ running
    /\ owed = Nothing
    /\ waiting # {}
    /\ waiting' = {}
    /\ owed' \in {Nothing} \cup {[to |-> waiting, content |-> c] : c \in Contents}
    /\ UNCHANGED <<running, known, sent>>

Send ==
    /\ owed # Nothing
    /\ sent' = sent \cup {owed}
    /\ owed' = Nothing
    /\ UNCHANGED <<running, known, waiting>>

Next == Switch \/ Decide \/ Send \/ \E m \in Messages : Accept(m)

Spec == Init /\ [][Next]_vars

=============================================================================
