------------------------------ MODULE Telegram ------------------------------
(***************************************************************************)
(* Approval cards in the chat (kahyad/internal/telegram): a pending        *)
(* approval of class W1 or W2 becomes a message with two buttons, one of   *)
(* class W3 or of the secret lane a message without any; a tap is one      *)
(* goroutine that asks the policy engine and then edits the card.  The     *)
(* decision itself is the engine's, whose row takes the first answer and   *)
(* refuses every later one (Approvals); halting a task, the CLI and expiry *)
(* decide the same rows.  The map of cards is in memory only.              *)
(***************************************************************************)
EXTENDS Integers, FiniteSets

CONSTANTS
    Cards,          \* pending approvals
    ClassOf,        \* per approval: W1, W2 or W3
    SecretCards,    \* approvals whose input is in the secret lane
    CardTaps,       \* taps of a behaviour
    MaxBotRestarts  \* bound

ASSUME TelegramAssumption ==
    /\ ClassOf \in [Cards -> {"W1", "W2", "W3"}]
    /\ SecretCards \subseteq Cards /\ MaxBotRestarts \in Nat

VARIABLES
    decision,   \* the engine's row: pending, approved, denied, expired, halted
    message,    \* per approval: what is in the chat, [text, keyboard]
    cards,      \* b.cards: per approval absent, open or resolved
    sending,    \* sendApprovalCard between its sends and the map
    tapAt,      \* per tap: [at, card, action]
    chatOrder,  \* the edits in flight of an approval's card
    botRestarts

telegramVars == <<decision, message, cards, sending, tapAt, chatOrder, botRestarts>>

NoMessage == [text |-> "none", keyboard |-> FALSE]

TelegramInit ==
    /\ decision = [c \in Cards |-> "none"]
    /\ message = [c \in Cards |-> NoMessage]
    /\ cards = [c \in Cards |-> "absent"]
    /\ sending = {}
    /\ tapAt = [t \in CardTaps |-> [at |-> "new", card |-> 0, action |-> "A"]]
    /\ chatOrder = [c \in Cards |-> {}]
    /\ botRestarts = 0

\* Defect: only the class is looked at.
BugHasKeyboard(c) == ClassOf[c] # "W3"

\* OnPendingApproval: the secret lane first, then the class.
HasKeyboard(c) == c \notin SecretCards /\ ClassOf[c] # "W3"

\* The engine has a new pending row and its listener sends what the chat may
\* see of it; the gate or the network may stop the message.
OnPendingApproval(c) ==
    /\ decision[c] = "none"
    /\ decision' = [decision EXCEPT ![c] = "pending"]
    /\ \/ /\ message' = [message EXCEPT ![c] =
                [text |-> "asks", keyboard |-> HasKeyboard(c)]]
          /\ sending' = IF HasKeyboard(c) THEN sending \cup {c} ELSE sending
       \/ UNCHANGED <<message, sending>>
    /\ UNCHANGED <<cards, tapAt, chatOrder, botRestarts>>

\* The card is entered in the map after the message went out.
RememberCard(c) ==
    /\ c \in sending
    /\ sending' = sending \ {c}
    /\ cards' = [cards EXCEPT ![c] = "open"]
    /\ UNCHANGED <<decision, message, tapAt, chatOrder, botRestarts>>

\* The row is decided elsewhere, by the CLI or by time; nobody tells the bot.
DecideElsewhere(c) ==
    /\ decision[c] = "pending"
    /\ \E d \in {"approved", "denied", "expired"} :
         decision' = [decision EXCEPT ![c] = d]
    /\ UNCHANGED <<message, cards, sending, tapAt, chatOrder, botRestarts>>

\* A halt decides it and OnApprovalInvalidated marks the card, if there is
\* one by then.
OnApprovalInvalidated(c) ==
    /\ decision[c] = "pending"
    /\ decision' = [decision EXCEPT ![c] = "halted"]
    /\ IF cards[c] = "absent" THEN UNCHANGED <<cards, chatOrder>>
       ELSE /\ cards' = [cards EXCEPT ![c] = "resolved"]
            /\ chatOrder' = [chatOrder EXCEPT ![c] = @ \cup {"halted"}]
    /\ UNCHANGED <<message, sending, tapAt, botRestarts>>

AlreadyResolved(c) == cards[c] = "resolved"

\* handleCallback up to the engine: only the configured chat's taps on a
\* button come here.
HandleCallback(t) ==
    /\ tapAt[t].at = "new"
    /\ \E c \in Cards, action \in {"A", "D"} :
         /\ message[c].keyboard
         /\ tapAt' = [tapAt EXCEPT ![t] =
                        [at |-> IF AlreadyResolved(c) THEN "done" ELSE "ask",
                         card |-> c, action |-> action]]
    /\ UNCHANGED <<decision, message, cards, sending, chatOrder, botRestarts>>

\* Defect: the error of Approve and Deny is dropped.
BugOutcome(action, row) == IF action = "A" THEN "approved" ELSE "denied"

\* What the card is told: the answer, or that the row was not waiting any
\* more.
Outcome(action, row) ==
    IF row # "pending" THEN "expired"
    ELSE IF action = "A" THEN "approved" ELSE "denied"

\* engine.Approve or engine.Deny: the first answer is the row's.  Any error,
\* a failing database included, is shown as expired.
AskEngine(t) ==
    /\ tapAt[t].at = "ask"
    /\ LET c == tapAt[t].card
           says == Outcome(tapAt[t].action, decision[c])
       IN \/ /\ decision' = IF decision[c] = "pending"
                              THEN [decision EXCEPT ![c] = says] ELSE decision
             /\ tapAt' = [tapAt EXCEPT ![t].at = says]
          \/ /\ tapAt' = [tapAt EXCEPT ![t].at = "expired"]
             /\ UNCHANGED decision
    /\ UNCHANGED <<message, cards, sending, chatOrder, botRestarts>>

\* markResolved: the card, if the map has one, and its edit.
MarkResolved(t) ==
    /\ tapAt[t].at \in {"approved", "denied", "expired"}
    /\ LET c == tapAt[t].card
       IN IF cards[c] = "absent" THEN UNCHANGED <<cards, chatOrder>>
          ELSE /\ cards' = [cards EXCEPT ![c] = "resolved"]
               /\ chatOrder' = [chatOrder EXCEPT ![c] = @ \cup {tapAt[t].at}]
    /\ tapAt' = [tapAt EXCEPT ![t].at = "done"]
    /\ UNCHANGED <<decision, message, sending, botRestarts>>

\* An edit reaches the chat, in any order, or is blocked.  It replaces the
\* text and takes the buttons away.
EditCard(c) ==
    /\ \E e \in chatOrder[c] :
         /\ chatOrder' = [chatOrder EXCEPT ![c] = @ \ {e}]
         /\ \/ message' = [message EXCEPT ![c] = [text |-> e, keyboard |-> FALSE]]
            \/ UNCHANGED message
    /\ UNCHANGED <<decision, cards, sending, tapAt, botRestarts>>

\* The bot starts again: the map is empty, the messages stay.
BotRestart ==
    /\ botRestarts < MaxBotRestarts
    /\ botRestarts' = botRestarts + 1
    /\ cards' = [c \in Cards |-> "absent"]
    /\ sending' = {}
    /\ chatOrder' = [c \in Cards |-> {}]
    /\ tapAt' = [t \in CardTaps |->
                   IF tapAt[t].at \in {"new", "done"} THEN tapAt[t]
                   ELSE [tapAt[t] EXCEPT !.at = "done"]]
    /\ UNCHANGED <<decision, message>>

TelegramNext ==
    \/ \E c \in Cards :
         \/ OnPendingApproval(c) \/ RememberCard(c) \/ DecideElsewhere(c)
         \/ OnApprovalInvalidated(c) \/ EditCard(c)
    \/ \E t \in CardTaps : HandleCallback(t) \/ AskEngine(t) \/ MarkResolved(t)
    \/ BotRestart

----------------------------------------------------------------------------

\* Types of the variables.
TelegramTypeOK ==
    /\ decision \in [Cards -> {"none", "pending", "approved", "denied", "expired", "halted"}]
    /\ message \in [Cards -> [text : {"none", "asks", "approved", "denied", "expired", "halted"},
                             keyboard : BOOLEAN]]
    /\ cards \in [Cards -> {"absent", "open", "resolved"}] /\ sending \subseteq Cards
    /\ tapAt \in [CardTaps -> [at : {"new", "ask", "approved", "denied", "expired", "done"},
                               card : Cards \cup {0}, action : {"A", "D"}]]
    /\ chatOrder \in [Cards -> SUBSET {"approved", "denied", "expired", "halted"}]
    /\ botRestarts \in 0..MaxBotRestarts

(* A card that says approved or denied says what the engine decided, with  *)
(* two taps racing, the task halted or the row decided at the terminal     *)
(* meanwhile, and the edits arriving in any order.                         *)
CardsTellTheDecision ==
    \A c \in Cards :
        message[c].text \in {"approved", "denied", "halted"} =>
            decision[c] = message[c].text

(* No button is ever under a message about the secret lane or class W3,    *)
(* so that no tap decides one, after a restart as well.                    *)
LocalOnlyDecidedLocally ==
    [][\A t \in CardTaps :
         tapAt[t].at = "ask" /\ tapAt'[t].at = "approved" =>
            /\ ClassOf[tapAt[t].card] # "W3"
            /\ tapAt[t].card \notin SecretCards]_telegramVars

\* The chat's promise: a card never shows a decision that was not taken, and
\* what must be decided at the machine is not decided in the chat.
CardsAreFaithful ==
    [](TelegramTypeOK /\ CardsTellTheDecision) /\ LocalOnlyDecidedLocally
=============================================================================
