----------------------------- MODULE JobsProof -----------------------------
(***************************************************************************)
(* For any number of cards, taps, facts, jobs, processes and calls: what   *)
(* the approval cards of the chat, the weekly truth ritual, triggered jobs *)
(* with their briefing and the anchor of the ledger promise, that daemons  *)
(* that start and close down stay apart, what the process tools confine,   *)
(* and that the launchd lists and the nightly snapshots come out whole.    *)
(* The components share no state.                                          *)
(***************************************************************************)
EXTENDS Telegram, Ritual, Daemon, ToolRuns, Scheduler, Anchor, LaunchdSync, Backup,
        SumsProof, FiniteSetTheorems, SequenceTheorems, TLAPS

TelegramSpec == TelegramInit /\ [][TelegramNext]_telegramVars

Decided == {"approved", "denied", "halted"}

\* An edit under way says what was decided.
EditsAreTrue == \A c \in Cards : \A e \in chatOrder[c] \cap Decided : decision[c] = e

\* A tap works on a card that may have buttons, and what the engine told it
\* is what the row says.
TapsAreTrue ==
    \A t \in CardTaps : tapAt[t].at \notin {"new", "done"} =>
        /\ tapAt[t].card \in Cards /\ HasKeyboard(tapAt[t].card)
        /\ tapAt[t].at \in Decided => decision[tapAt[t].card] = tapAt[t].at

\* Buttons are only under messages that may have them.
ButtonsAreAllowed == \A c \in Cards : message[c].keyboard => HasKeyboard(c)

ChatInv ==
    TelegramTypeOK /\ CardsTellTheDecision /\ EditsAreTrue /\ TapsAreTrue /\ ButtonsAreAllowed

\* A row that is decided stays as it is.
LEMMA DecisionIsFinal ==
    ASSUME ChatInv, TelegramNext, NEW c \in Cards, decision[c] \in Decided
    PROVE  decision'[c] = decision[c]
<1>1. ASSUME NEW d \in Cards, OnPendingApproval(d) \/ DecideElsewhere(d) \/ OnApprovalInvalidated(d)
      PROVE  decision'[c] = decision[c]
  BY <1>1 DEF OnPendingApproval, DecideElsewhere, OnApprovalInvalidated, ChatInv,
     TelegramTypeOK, Decided
<1>2. ASSUME NEW t \in CardTaps, AskEngine(t) PROVE decision'[c] = decision[c]
  BY <1>2 DEF AskEngine, ChatInv, TelegramTypeOK, Decided
<1> QED
  BY <1>1, <1>2 DEF TelegramNext, RememberCard, EditCard, HandleCallback, MarkResolved, BotRestart

\* The invariant at the start.
LEMMA InitChat == TelegramInit => ChatInv
BY TelegramAssumption DEF TelegramInit, ChatInv, TelegramTypeOK, NoMessage, CardsTellTheDecision,
   EditsAreTrue, TapsAreTrue, ButtonsAreAllowed

\* Types.
LEMMA ChatTypes == ChatInv /\ [TelegramNext]_telegramVars => TelegramTypeOK'
<1> SUFFICES ASSUME ChatInv, TelegramNext PROVE TelegramTypeOK'
  BY DEF ChatInv, TelegramTypeOK, telegramVars
<1> USE TelegramAssumption
<1> DEFINE Message == [text : {"none", "asks", "approved", "denied", "expired", "halted"},
                       keyboard : BOOLEAN]
           Tap == [at : {"new", "ask", "approved", "denied", "expired", "done"},
                   card : Cards \cup {0}, action : {"A", "D"}]
<1>0. TelegramTypeOK
  BY DEF ChatInv
<1>1. decision' \in [Cards -> {"none", "pending", "approved", "denied", "expired", "halted"}]
  <2>1. ASSUME NEW t \in CardTaps, AskEngine(t)
        PROVE  \/ UNCHANGED decision
               \/ \E d \in {"approved", "denied", "expired"} :
                    decision' = [decision EXCEPT ![tapAt[t].card] = d]
    BY <2>1 DEF AskEngine, Outcome
  <2>2. ASSUME NEW c \in Cards, OnPendingApproval(c) \/ DecideElsewhere(c) \/ OnApprovalInvalidated(c)
        PROVE  \E d \in {"pending", "approved", "denied", "expired", "halted"} :
                  decision' = [decision EXCEPT ![c] = d]
    BY <2>2 DEF OnPendingApproval, DecideElsewhere, OnApprovalInvalidated
  <2>3. \/ UNCHANGED decision
        \/ \E c, d : /\ d \in {"pending", "approved", "denied", "expired", "halted"}
                     /\ decision' = [decision EXCEPT ![c] = d]
    BY <2>1, <2>2 DEF TelegramNext, RememberCard, EditCard, HandleCallback, MarkResolved,
       BotRestart
  <2> QED BY <1>0, <2>3 DEF TelegramTypeOK
<1>2. cards' \in [Cards -> {"absent", "open", "resolved"}] /\ sending' \subseteq Cards
  BY <1>0 DEF TelegramTypeOK, TelegramNext, OnPendingApproval, RememberCard, DecideElsewhere,
     OnApprovalInvalidated, EditCard, HandleCallback, AskEngine, MarkResolved, BotRestart
<1>3. chatOrder' \in [Cards -> SUBSET {"approved", "denied", "expired", "halted"}]
  BY <1>0 DEF TelegramTypeOK, TelegramNext, OnPendingApproval, RememberCard, DecideElsewhere,
     OnApprovalInvalidated, EditCard, HandleCallback, AskEngine, MarkResolved, BotRestart
<1>4. botRestarts' \in 0..MaxBotRestarts
  BY <1>0 DEF TelegramTypeOK, TelegramNext, OnPendingApproval, RememberCard, DecideElsewhere,
     OnApprovalInvalidated, EditCard, HandleCallback, AskEngine, MarkResolved, BotRestart
<1>5. message' \in [Cards -> Message]
  <2>1. ASSUME NEW c \in Cards, OnPendingApproval(c) \/ EditCard(c)
        PROVE  UNCHANGED message \/ \E m \in Message : message' = [message EXCEPT ![c] = m]
    <3>1. CASE OnPendingApproval(c)
      BY <3>1 DEF OnPendingApproval, HasKeyboard
    <3>2. CASE EditCard(c)
      <4>1. chatOrder[c] \subseteq {"approved", "denied", "expired", "halted"}
        BY <1>0 DEF TelegramTypeOK
      <4> QED BY <3>2, <4>1 DEF EditCard
    <3> QED BY <2>1, <3>1, <3>2
  <2>2. message \in [Cards -> Message]
    BY <1>0 DEF TelegramTypeOK
  <2>3. ASSUME NEW c \in Cards, OnPendingApproval(c) \/ EditCard(c)
        PROVE  message' \in [Cards -> Message]
    BY <2>1, <2>2, <2>3
  <2> QED
    BY <2>2, <2>3 DEF TelegramNext, RememberCard, DecideElsewhere, OnApprovalInvalidated,
       HandleCallback, AskEngine, MarkResolved, BotRestart
<1>6. tapAt' \in [CardTaps -> Tap]
  <2>0. tapAt \in [CardTaps -> Tap]
    BY <1>0 DEF TelegramTypeOK
  <2>1. ASSUME NEW t \in CardTaps, HandleCallback(t)
        PROVE  \E m \in Tap : tapAt' = [tapAt EXCEPT ![t] = m]
    BY <2>1 DEF HandleCallback
  <2>2. ASSUME NEW t \in CardTaps, AskEngine(t) \/ MarkResolved(t)
        PROVE  \E to \in {"approved", "denied", "expired", "done"} :
                 tapAt' = [tapAt EXCEPT ![t].at = to]
    BY <2>2 DEF AskEngine, MarkResolved, Outcome
  <2>3. ASSUME NEW t \in CardTaps, HandleCallback(t) \/ AskEngine(t) \/ MarkResolved(t)
        PROVE  tapAt' \in [CardTaps -> Tap]
    BY <2>0, <2>1, <2>2, <2>3
  <2>4. CASE BotRestart
    BY <2>0, <2>4 DEF BotRestart
  <2> QED
    BY <2>0, <2>3, <2>4 DEF TelegramNext, OnPendingApproval, RememberCard, DecideElsewhere,
       OnApprovalInvalidated, EditCard
<1> QED
  BY <1>1, <1>2, <1>3, <1>4, <1>5, <1>6 DEF TelegramTypeOK

\* What is in the chat and on its way there stays true.
LEMMA ChatStaysTrue ==
    ChatInv /\ [TelegramNext]_telegramVars =>
        CardsTellTheDecision' /\ EditsAreTrue' /\ ButtonsAreAllowed'
<1> SUFFICES ASSUME ChatInv, TelegramNext
             PROVE  CardsTellTheDecision' /\ EditsAreTrue' /\ ButtonsAreAllowed'
  BY DEF ChatInv, CardsTellTheDecision, EditsAreTrue, ButtonsAreAllowed, HasKeyboard, telegramVars
<1>0. /\ TelegramTypeOK /\ CardsTellTheDecision /\ EditsAreTrue /\ TapsAreTrue
      /\ ButtonsAreAllowed /\ \A c \in Cards : decision[c] \in Decided => decision'[c] = decision[c]
  BY DecisionIsFinal DEF ChatInv
<1> SUFFICES ASSUME NEW c \in Cards
             PROVE  /\ message'[c].text \in Decided => decision'[c] = message'[c].text
                    /\ \A e \in chatOrder'[c] \cap Decided : decision'[c] = e
                    /\ message'[c].keyboard => HasKeyboard(c)
  BY DEF CardsTellTheDecision, EditsAreTrue, ButtonsAreAllowed, Decided, HasKeyboard
<1>1. /\ message[c].text \in Decided => decision[c] = message[c].text
      /\ \A e \in chatOrder[c] \cap Decided : decision[c] = e
      /\ message[c].keyboard => HasKeyboard(c)
  BY <1>0 DEF CardsTellTheDecision, EditsAreTrue, ButtonsAreAllowed, Decided
<1>2. CASE message'[c] = message[c] /\ chatOrder'[c] = chatOrder[c]
  BY <1>0, <1>1, <1>2
<1>3. ASSUME NEW d \in Cards, OnPendingApproval(d)
      PROVE  /\ chatOrder' = chatOrder
             /\ \/ message'[c] = message[c]
                \/ message'[c] = [text |-> "asks", keyboard |-> HasKeyboard(c)]
  BY <1>0, <1>3 DEF OnPendingApproval, TelegramTypeOK
<1>4. ASSUME NEW d \in Cards, OnApprovalInvalidated(d)
      PROVE  /\ message' = message
             /\ \/ chatOrder'[c] = chatOrder[c]
                \/ chatOrder'[c] = chatOrder[c] \cup {"halted"} /\ decision'[c] = "halted"
  BY <1>0, <1>4 DEF OnApprovalInvalidated, TelegramTypeOK
<1>5. ASSUME NEW d \in Cards, EditCard(d)
      PROVE  /\ chatOrder'[c] \subseteq chatOrder[c]
             /\ \/ message'[c] = message[c]
                \/ \E e \in chatOrder[c] : message'[c] = [text |-> e, keyboard |-> FALSE]
  <2>1. CASE d = c
    <3>1. PICK e \in chatOrder[c] :
            /\ chatOrder' = [chatOrder EXCEPT ![c] = @ \ {e}]
            /\ \/ message' = [message EXCEPT ![c] = [text |-> e, keyboard |-> FALSE]]
               \/ UNCHANGED message
      BY <1>5, <2>1 DEF EditCard
    <3>2. chatOrder'[c] = chatOrder[c] \ {e}
      BY <1>0, <3>1 DEF TelegramTypeOK
    <3>3. message'[c] = message[c] \/ message'[c] = [text |-> e, keyboard |-> FALSE]
      BY <1>0, <3>1 DEF TelegramTypeOK
    <3> QED BY <3>2, <3>3
  <2>2. CASE d # c
    BY <1>0, <1>5, <2>2 DEF EditCard, TelegramTypeOK
  <2> QED BY <2>1, <2>2
<1>6. ASSUME NEW t \in CardTaps, MarkResolved(t)
      PROVE  /\ message' = message
             /\ \/ chatOrder'[c] = chatOrder[c]
                \/ /\ chatOrder'[c] = chatOrder[c] \cup {tapAt[t].at}
                   /\ tapAt[t].at \in Decided => decision[c] = tapAt[t].at
  BY <1>0, <1>6 DEF MarkResolved, TelegramTypeOK, TapsAreTrue, Decided
<1>7. ASSUME \/ \E d \in Cards : RememberCard(d) \/ DecideElsewhere(d)
             \/ \E t \in CardTaps : HandleCallback(t) \/ AskEngine(t)
      PROVE  UNCHANGED <<message, chatOrder>>
  BY <1>7 DEF RememberCard, DecideElsewhere, HandleCallback, AskEngine
<1>8. CASE BotRestart
  BY <1>0, <1>1, <1>8 DEF BotRestart
<1>9. ASSUME NEW d \in Cards, OnPendingApproval(d) \/ OnApprovalInvalidated(d) \/ EditCard(d)
      PROVE  /\ message'[c].text \in Decided => decision'[c] = message'[c].text
             /\ \A e \in chatOrder'[c] \cap Decided : decision'[c] = e
             /\ message'[c].keyboard => HasKeyboard(c)
  <2>1. CASE OnPendingApproval(d)
    BY <1>0, <1>1, <1>3, <2>1 DEF Decided
  <2>2. CASE OnApprovalInvalidated(d)
    BY <1>0, <1>1, <1>4, <2>2
  <2>3. CASE EditCard(d)
    <3>1. \A e \in chatOrder'[c] \cap Decided : decision'[c] = e
      BY <1>0, <1>1, <1>5, <2>3
    <3>2. CASE message'[c] = message[c]
      BY <1>0, <1>1, <3>1, <3>2
    <3>3. ASSUME NEW e \in chatOrder[c], message'[c] = [text |-> e, keyboard |-> FALSE]
          PROVE  /\ message'[c].text \in Decided => decision'[c] = message'[c].text
                 /\ ~message'[c].keyboard
      BY <1>0, <1>1, <3>3
    <3> QED BY <1>5, <2>3, <3>1, <3>2, <3>3
  <2> QED BY <1>9, <2>1, <2>2, <2>3
<1>10. ASSUME NEW t \in CardTaps, MarkResolved(t)
       PROVE  /\ message'[c].text \in Decided => decision'[c] = message'[c].text
              /\ \A e \in chatOrder'[c] \cap Decided : decision'[c] = e
              /\ message'[c].keyboard => HasKeyboard(c)
  BY <1>0, <1>1, <1>6, <1>10
<1> QED
  BY <1>2, <1>7, <1>8, <1>9, <1>10 DEF TelegramNext

\* A tap only starts on a button, and is told what the row says.
LEMMA TapsStayTrue == ChatInv /\ [TelegramNext]_telegramVars => TapsAreTrue'
<1> SUFFICES ASSUME ChatInv, TelegramNext PROVE TapsAreTrue'
  BY DEF ChatInv, TapsAreTrue, HasKeyboard, telegramVars
<1>0. /\ TelegramTypeOK /\ TapsAreTrue /\ ButtonsAreAllowed
      /\ \A c \in Cards : decision[c] \in Decided => decision'[c] = decision[c]
  BY DecisionIsFinal DEF ChatInv
<1> SUFFICES ASSUME NEW t \in CardTaps, tapAt'[t].at \notin {"new", "done"}
             PROVE  /\ tapAt'[t].card \in Cards /\ HasKeyboard(tapAt'[t].card)
                    /\ tapAt'[t].at \in Decided => decision'[tapAt'[t].card] = tapAt'[t].at
  BY DEF TapsAreTrue, HasKeyboard
<1>1. CASE tapAt'[t] = tapAt[t]
  BY <1>0, <1>1 DEF TapsAreTrue
<1>2. ASSUME NEW u \in CardTaps, HandleCallback(u)
      PROVE  \/ tapAt'[t] = tapAt[t]
             \/ tapAt'[t].at = "ask" /\ tapAt'[t].card \in Cards /\ HasKeyboard(tapAt'[t].card)
  BY <1>0, <1>2 DEF HandleCallback, TelegramTypeOK, ButtonsAreAllowed
<1>3. ASSUME NEW u \in CardTaps, AskEngine(u)
      PROVE  \/ tapAt'[t] = tapAt[t]
             \/ /\ tapAt[t].at = "ask" /\ tapAt'[t].card = tapAt[t].card
                /\ tapAt'[t].at \in Decided => decision'[tapAt[t].card] = tapAt'[t].at
  <2>1. CASE u = t
    <3>1. tapAt[t].at = "ask" /\ tapAt[t].card \in Cards
      BY <1>0, <1>3, <2>1 DEF AskEngine, TapsAreTrue
    <3>2. CASE decision[tapAt[t].card] = "pending"
      BY <1>0, <1>3, <2>1, <3>1, <3>2 DEF AskEngine, TelegramTypeOK, Outcome, Decided
    <3>3. CASE decision[tapAt[t].card] # "pending"
      BY <1>0, <1>3, <2>1, <3>1, <3>3 DEF AskEngine, TelegramTypeOK, Outcome, Decided
    <3> QED BY <3>2, <3>3
  <2>2. CASE u # t
    BY <1>0, <1>3, <2>2 DEF AskEngine, TelegramTypeOK
  <2> QED BY <2>1, <2>2
<1>4. ASSUME NEW u \in CardTaps, MarkResolved(u) PROVE tapAt'[t] = tapAt[t]
  BY <1>0, <1>4 DEF MarkResolved, TelegramTypeOK
<1>5. ASSUME \E c \in Cards : \/ OnPendingApproval(c) \/ RememberCard(c) \/ DecideElsewhere(c)
                              \/ OnApprovalInvalidated(c) \/ EditCard(c)
      PROVE  UNCHANGED tapAt
  BY <1>5 DEF OnPendingApproval, RememberCard, DecideElsewhere, OnApprovalInvalidated, EditCard
<1>6. CASE BotRestart
  BY <1>0, <1>6 DEF BotRestart, TelegramTypeOK
<1>7. ASSUME NEW u \in CardTaps, HandleCallback(u)
      PROVE  /\ tapAt'[t].card \in Cards /\ HasKeyboard(tapAt'[t].card)
             /\ tapAt'[t].at \in Decided => decision'[tapAt'[t].card] = tapAt'[t].at
  BY <1>1, <1>2, <1>7 DEF Decided
<1>8. ASSUME NEW u \in CardTaps, AskEngine(u)
      PROVE  /\ tapAt'[t].card \in Cards /\ HasKeyboard(tapAt'[t].card)
             /\ tapAt'[t].at \in Decided => decision'[tapAt'[t].card] = tapAt'[t].at
  BY <1>0, <1>1, <1>3, <1>8 DEF TapsAreTrue
<1> QED
  BY <1>1, <1>4, <1>5, <1>6, <1>7, <1>8 DEF TelegramNext

\* A step that approves by a tap approves what may be decided in the chat.
LEMMA TapIsAllowed ==
    ASSUME ChatInv, [TelegramNext]_telegramVars, NEW t \in CardTaps,
           tapAt[t].at = "ask"
    PROVE  ClassOf[tapAt[t].card] # "W3" /\ tapAt[t].card \notin SecretCards
BY DEF ChatInv, TapsAreTrue, HasKeyboard

\* A card never shows a decision that was not taken, with taps, the halt key,
\* the terminal and restarts racing, and no tap decides a W3 or secret request.
THEOREM ChatIsFaithful == TelegramSpec => CardsAreFaithful
<1>1. ChatInv /\ [TelegramNext]_telegramVars => ChatInv'
  BY ChatTypes, ChatStaysTrue, TapsStayTrue DEF ChatInv
<1>2. TelegramSpec => []ChatInv
  BY <1>1, InitChat, PTL DEF TelegramSpec
<1>3. ChatInv => TelegramTypeOK /\ CardsTellTheDecision
  BY DEF ChatInv
<1>4. ChatInv /\ [TelegramNext]_telegramVars =>
       \A t \in CardTaps :
         tapAt[t].at = "ask" /\ tapAt'[t].at = "approved" =>
            /\ ClassOf[tapAt[t].card] # "W3"
            /\ tapAt[t].card \notin SecretCards
  BY TapIsAllowed
<1> QED
  BY <1>2, <1>3, <1>4, PTL DEF TelegramSpec, CardsAreFaithful, LocalOnlyDecidedLocally

-----------------------------------------------------------------------------
(* The truth ritual.                                                       *)

RitualSpec == RitualInit /\ [][RitualNext]_ritualVars

LabelRows == [fact : RitualFacts, session : Nat, asked : Nat,
              label : {"none", "true", "false", "unsure"}]

TapRows == [at : {"new", "expired", "vote", "confirm", "label", "done", "failed"},
            row : Nat, answer : {"true", "false", "unsure"}, seen : Nat]

RitualTypes ==
    /\ ritualNow \in Nat /\ ritualRuns \in Nat /\ askedAt \in Nat
    /\ toAsk \in Seq(RitualFacts)
    /\ labels \in Seq(LabelRows)
    /\ asked \subseteq 1..Len(labels)
    /\ tap \in [Taps -> TapRows]

\* Only classified facts are asked about, now and before.
OnlyClassified ==
    /\ \A i \in 1..Len(toAsk) : Classify(toAsk[i])
    /\ \A i \in 1..Len(labels) : Classify(labels[i].fact)

VoteFor(row, answer) ==
    [fact |-> row.fact, session |-> row.session, polarity |-> IF answer = "true" THEN 1 ELSE -1]

\* A tap under way answers a row that was open when it came, and has voted
\* before it confirms or labels.
TapOK(x) ==
    /\ x.at \in {"vote", "confirm", "label", "done", "failed"} =>
          x.row \in 1..Len(labels) /\ x.seen - labels[x.row].asked <= Window
    /\ x.at = "confirm" => x.answer = "true"
    /\ x.at = "vote" => x.answer \in {"true", "false"}
    /\ x.at \in {"confirm", "label"} /\ x.answer \in {"true", "false"} =>
          VoteFor(labels[x.row], x.answer) \in votes

RitualInv ==
    RitualTypes /\ OnlyClassified /\ (\A t \in Taps : TapOK(tap[t])) /\ LabelsHaveVotes

\* Nobody has been asked anything.
LEMMA InitRitual == RitualInit => RitualInv
<1> SUFFICES ASSUME RitualInit PROVE RitualInv
  OBVIOUS
<1>1. Len(toAsk) = 0 /\ Len(labels) = 0 /\ labels \in Seq(LabelRows) /\ toAsk \in Seq(RitualFacts)
  BY DEF RitualInit
<1>2. NoTap \in TapRows /\ TapOK(NoTap)
  BY DEF NoTap, TapRows, TapOK
<1>3. \A t \in Taps : TapOK(tap[t])
  BY <1>2 DEF RitualInit
<1>4. RitualTypes
  BY <1>1, <1>2 DEF RitualTypes, RitualInit
<1>5. LabelsHaveVotes
  <2>1. DOMAIN labels = 1..Len(labels)
    BY <1>1
  <2> QED BY <1>1, <2>1 DEF LabelsHaveVotes
<1> QED BY <1>1, <1>3, <1>4, <1>5 DEF RitualInv, OnlyClassified

\* Rows stay what they are but for their label, and votes only grow.
RowsKept ==
    /\ Len(labels) <= Len(labels')
    /\ \A i \in 1..Len(labels) : /\ labels'[i].fact = labels[i].fact
                                /\ labels'[i].session = labels[i].session
                                /\ labels'[i].asked = labels[i].asked
    /\ votes \subseteq votes'

\* What holds of a tap goes on holding.
LEMMA TapStaysOK ==
    ASSUME RitualTypes, RitualTypes', RowsKept, NEW x, TapOK(x),
           x.at \in {"confirm", "label"} => x.row \in 1..Len(labels)
    PROVE  TapOK(x)'
<1>1. Len(labels) \in Nat /\ Len(labels') \in Nat
  BY DEF RitualTypes
<1>2. x.row \in 1..Len(labels) =>
        /\ x.row \in 1..Len(labels')
        /\ labels'[x.row].asked = labels[x.row].asked
        /\ VoteFor(labels'[x.row], x.answer) = VoteFor(labels[x.row], x.answer)
  BY <1>1 DEF RowsKept, VoteFor
<1> QED BY <1>2 DEF TapOK, RowsKept

\* One tap moves on.
LEMMA OneTapMoves ==
    ASSUME RitualInv, RitualTypes', RowsKept, NEW t \in Taps, NEW r \in TapRows, TapOK(r)',
           tap' = [tap EXCEPT ![t] = r]
    PROVE  (\A u \in Taps : TapOK(tap[u]))'
<1> SUFFICES ASSUME NEW u \in Taps PROVE TapOK(tap[u])'
  OBVIOUS
<1>1. CASE u = t
  <2>1. tap'[u] = r
    BY <1>1 DEF RitualInv, RitualTypes
  <2> QED BY <2>1 DEF TapOK, VoteFor
<1>2. CASE u # t
  <2>1. tap'[u] = tap[u] /\ TapOK(tap[u])
    BY <1>2 DEF RitualInv, RitualTypes
  <2>2. PICK x : x = tap[u]
    OBVIOUS
  <2>3. TapOK(x)'
    <3>1. RitualTypes /\ TapOK(x)
      BY <2>1, <2>2 DEF RitualInv
    <3>2. x.at \in {"confirm", "label"} => x.row \in 1..Len(labels)
      BY <3>1 DEF TapOK
    <3> QED BY <3>1, <3>2, TapStaysOK
  <2> QED BY <2>1, <2>2, <2>3 DEF TapOK, VoteFor
<1> QED BY <1>1, <1>2

\* A label that is set, or a row that is added, changes nothing else of a row.
LEMMA LabelElement ==
    ASSUME RitualTypes, NEW i \in 1..Len(labels) PROVE labels[i] \in LabelRows
<1>1. labels \in Seq(LabelRows)
  BY DEF RitualTypes
<1> QED BY <1>1, ElementOfSeq

\* The clock, the sample and an aborted run.
LEMMA RunStep ==
    ASSUME RitualInv, RitualTick \/ StartRitual \/ AskCut \/ UNCHANGED ritualVars
    PROVE  RitualInv'
<1>1. UNCHANGED <<labels, asked, votes, tap>>
  BY DEF RitualTick, StartRitual, AskCut, ritualVars
<1>2. /\ toAsk' \in Seq(RitualFacts)
      /\ \A i \in 1..Len(toAsk') : Classify(toAsk'[i])
  <2>1. CASE RitualTick \/ UNCHANGED ritualVars
    BY <2>1 DEF RitualTick, ritualVars, RitualInv, RitualTypes, OnlyClassified
  <2>2. CASE AskCut
    BY <2>2 DEF AskCut
  <2>3. CASE StartRitual
    <3> DEFINE known == {f \in RitualFacts : Classify(f)}
               n == IF Cardinality(known) < MaxQuestions THEN Cardinality(known) ELSE MaxQuestions
    <3>1. toAsk' \in [1..n -> known]
      BY <2>3 DEF StartRitual, Select
    <3>2. Cardinality(known) \in Nat
      <4>1. known \subseteq RitualFacts
        OBVIOUS
      <4>2. IsFiniteSet(known)
        BY <4>1, RitualAssumption, FS_Subset
      <4> QED BY <4>2, FS_CardinalityType
    <3>3. n \in Nat
      BY <3>2, RitualAssumption
    <3> HIDE DEF n
    <3>4. toAsk' \in Seq(known) /\ Len(toAsk') = n
      BY <3>1, <3>3
    <3> QED BY <3>1, <3>3, <3>4
  <2> QED BY <2>1, <2>2, <2>3
<1>3. ritualNow' \in Nat /\ ritualRuns' \in Nat /\ askedAt' \in Nat
  BY DEF RitualTick, StartRitual, AskCut, ritualVars, RitualInv, RitualTypes
<1> QED
  BY <1>1, <1>2, <1>3 DEF RitualInv, RitualTypes, OnlyClassified, TapOK, LabelsHaveVotes

\* Ask adds a row, about a fact of the sample.
LEMMA AskStep == ASSUME RitualInv, Ask PROVE RitualInv'
<1>0. /\ RitualTypes /\ labels \in Seq(LabelRows) /\ toAsk \in Seq(RitualFacts) /\ toAsk # <<>>
      /\ Len(labels) \in Nat
  BY DEF RitualInv, RitualTypes, Ask
<1> DEFINE row == [fact |-> Head(toAsk), session |-> ritualRuns, asked |-> askedAt, label |-> "none"]
<1>1. Head(toAsk) \in RitualFacts /\ Classify(Head(toAsk))
  <2>1. Len(toAsk) # 0 /\ Len(toAsk) \in Nat /\ Head(toAsk) = toAsk[1]
    BY <1>0, HeadTailProperties, EmptySeq
  <2>2. 1 \in 1..Len(toAsk)
    BY <2>1
  <2> QED BY <1>0, <2>1, <2>2, ElementOfSeq DEF RitualInv, OnlyClassified
<1>2. row \in LabelRows /\ row.label = "none" /\ row.fact = Head(toAsk)
  BY <1>0, <1>1 DEF LabelRows, RitualTypes
<1>3. labels' = Append(labels, row) /\ UNCHANGED <<ritualNow, ritualRuns, askedAt, votes, confirmed, tap>>
  BY DEF Ask
<1> HIDE DEF row
<1>4. /\ labels' \in Seq(LabelRows) /\ Len(labels') = Len(labels) + 1
      /\ \A k \in 1..Len(labels) : labels'[k] = labels[k]
      /\ labels'[Len(labels) + 1] = row
  BY <1>0, <1>2, <1>3, AppendProperties
<1>5. asked' \subseteq 1..Len(labels')
  BY <1>0, <1>4 DEF Ask, RitualTypes
<1>6. /\ toAsk' \in Seq(RitualFacts) /\ \A i \in 1..Len(toAsk') : Classify(toAsk'[i])
  <2>1. toAsk' = Tail(toAsk)
    BY DEF Ask
  <2>2. /\ Tail(toAsk) \in Seq(RitualFacts) /\ Len(Tail(toAsk)) = Len(toAsk) - 1
        /\ \A i \in 1..Len(Tail(toAsk)) : Tail(toAsk)[i] = toAsk[i + 1]
    BY <1>0, HeadTailProperties
  <2>3. \A i \in 1..(Len(toAsk) - 1) : i + 1 \in 1..Len(toAsk)
    BY <1>0
  <2> QED BY <2>1, <2>2, <2>3 DEF RitualInv, OnlyClassified
<1>7. RitualTypes'
  BY <1>0, <1>3, <1>4, <1>5, <1>6 DEF RitualTypes
<1>8. \A k \in 1..Len(labels') : k \in 1..Len(labels) \/ k = Len(labels) + 1
  BY <1>0, <1>4
<1>9. OnlyClassified'
  BY <1>1, <1>2, <1>4, <1>6, <1>8 DEF RitualInv, OnlyClassified
<1>10. RowsKept
  BY <1>0, <1>3, <1>4 DEF RowsKept
<1>11. (\A t \in Taps : TapOK(tap[t]))'
  <2> SUFFICES ASSUME NEW t \in Taps PROVE TapOK(tap[t])'
    OBVIOUS
  <2>1. PICK x : x = tap[t]
    OBVIOUS
  <2>2. TapOK(x) /\ tap'[t] = x
    BY <1>3, <2>1 DEF RitualInv
  <2>3. x.at \in {"confirm", "label"} => x.row \in 1..Len(labels)
    BY <2>2 DEF TapOK
  <2>4. TapOK(x)'
    BY <1>0, <1>7, <1>10, <2>2, <2>3, TapStaysOK
  <2> QED BY <2>2, <2>4 DEF TapOK, VoteFor
<1>12. LabelsHaveVotes'
  <2>1. DOMAIN labels = 1..Len(labels) /\ DOMAIN labels' = 1..Len(labels')
    BY <1>0, <1>4
  <2> SUFFICES ASSUME NEW i \in 1..Len(labels'), labels'[i].label \in {"true", "false"}
               PROVE  [fact |-> labels'[i].fact, session |-> labels'[i].session,
                       polarity |-> IF labels'[i].label = "true" THEN 1 ELSE -1] \in votes
    BY <1>3, <2>1 DEF LabelsHaveVotes
  <2>2. i \in 1..Len(labels) /\ labels'[i] = labels[i]
    BY <1>2, <1>4, <1>8
  <2> QED BY <2>1, <2>2 DEF RitualInv, LabelsHaveVotes
<1> QED BY <1>7, <1>9, <1>11, <1>12 DEF RitualInv

\* Answer puts a new tap to work on a row whose time has not run out.
LEMMA AnswerStep == ASSUME RitualInv, NEW t \in Taps, Answer(t) PROVE RitualInv'
<1>0. RitualTypes /\ Len(labels) \in Nat
  BY DEF RitualInv, RitualTypes
<1>1. PICK i \in asked, answer \in {"true", "false", "unsure"} :
        tap' = [tap EXCEPT ![t] =
                  [at |-> IF Expired(labels[i], ritualNow) THEN "expired"
                          ELSE IF answer = "unsure" THEN "label" ELSE "vote",
                   row |-> i, answer |-> answer, seen |-> ritualNow]]
  BY DEF Answer
<1>2. PICK r : r = [at |-> IF Expired(labels[i], ritualNow) THEN "expired"
                           ELSE IF answer = "unsure" THEN "label" ELSE "vote",
                    row |-> i, answer |-> answer, seen |-> ritualNow]
  OBVIOUS
<1>3. tap' = [tap EXCEPT ![t] = r]
  BY <1>1, <1>2
<1>4. UNCHANGED <<ritualNow, ritualRuns, toAsk, askedAt, labels, asked, votes, confirmed>>
  BY DEF Answer
<1>5. i \in 1..Len(labels) /\ i \in Nat
  BY <1>0 DEF RitualTypes
<1>6. /\ r.row = i /\ r.answer = answer /\ r.seen = ritualNow
      /\ Expired(labels[i], ritualNow) => r.at = "expired"
      /\ ~Expired(labels[i], ritualNow) /\ answer = "unsure" => r.at = "label"
      /\ ~Expired(labels[i], ritualNow) /\ answer # "unsure" => r.at = "vote"
  <2>1. CASE Expired(labels[i], ritualNow)
    BY <1>2, <2>1
  <2>2. CASE ~Expired(labels[i], ritualNow) /\ answer = "unsure"
    BY <1>2, <2>2
  <2>3. CASE ~Expired(labels[i], ritualNow) /\ answer # "unsure"
    BY <1>2, <2>3
  <2> QED BY <2>1, <2>2, <2>3
<1>7. r \in TapRows
  BY <1>0, <1>2, <1>5 DEF TapRows, RitualTypes
<1>8. ~Expired(labels[i], ritualNow) => ritualNow - labels[i].asked <= Window
  <2>1. labels[i].asked \in Nat
    BY <1>0, <1>5, LabelElement DEF LabelRows
  <2> QED BY <1>0, <2>1, RitualAssumption DEF Expired, RitualTypes
<1>9. TapOK(r)'
  <2>1. TapOK(r)
    BY <1>5, <1>6, <1>8 DEF TapOK
  <2> QED BY <1>4, <2>1 DEF TapOK, VoteFor
<1>10. RitualTypes'
  BY <1>0, <1>3, <1>4, <1>7 DEF RitualTypes
<1>11. RowsKept
  BY <1>0, <1>4 DEF RowsKept
<1>12. (\A u \in Taps : TapOK(tap[u]))'
  BY <1>3, <1>7, <1>9, <1>10, <1>11, OneTapMoves
<1> QED BY <1>4, <1>10, <1>12 DEF RitualInv, OnlyClassified, LabelsHaveVotes

\* Vote: the vote is there before the tap goes on.
LEMMA VoteStep == ASSUME RitualInv, NEW t \in Taps, Vote(t) PROVE RitualInv'
<1>0. RitualTypes /\ Len(labels) \in Nat /\ tap[t] \in TapRows /\ TapOK(tap[t])
  BY DEF RitualInv, RitualTypes
<1>1. PICK a : a = IF tap[t].answer = "true" THEN "confirm" ELSE "label"
  OBVIOUS
<1>2. PICK r : r = [tap[t] EXCEPT !.at = a]
  OBVIOUS
<1>3. tap' = [tap EXCEPT ![t] = r] /\ tap[t].at = "vote"
  BY <1>1, <1>2 DEF Vote
<1>4. UNCHANGED <<ritualNow, ritualRuns, toAsk, askedAt, labels, asked, confirmed>>
  BY DEF Vote
<1>5. /\ r \in TapRows /\ r.at = a
      /\ r.row = tap[t].row /\ r.answer = tap[t].answer /\ r.seen = tap[t].seen
  BY <1>0, <1>1, <1>2 DEF TapRows
<1>6. votes' = votes \cup {VoteFor(labels[r.row], r.answer)}
  BY <1>5 DEF Vote, VoteOf, VoteFor
<1>7. TapOK(r)'
  <2>1. /\ r.row \in 1..Len(labels) /\ r.seen - labels[r.row].asked <= Window
        /\ r.answer \in {"true", "false"}
    BY <1>0, <1>3, <1>5 DEF TapOK
  <2>2. /\ a = "confirm" => r.answer = "true"
        /\ a # "vote"
    BY <1>1, <1>5
  <2>3. PICK v : v = VoteFor(labels[r.row], r.answer)
    OBVIOUS
  <2>4. v \in votes' /\ VoteFor(labels'[r.row], r.answer) = v
    BY <1>4, <1>6, <2>3 DEF VoteFor
  <2> QED BY <1>4, <1>5, <2>1, <2>2, <2>4 DEF TapOK, VoteFor
<1>8. RitualTypes'
  BY <1>0, <1>3, <1>4, <1>5 DEF RitualTypes
<1>9. RowsKept
  BY <1>0, <1>4, <1>6 DEF RowsKept
<1>10. (\A u \in Taps : TapOK(tap[u]))'
  BY <1>3, <1>5, <1>7, <1>8, <1>9, OneTapMoves
<1>11. LabelsHaveVotes'
  BY <1>4, <1>6 DEF RitualInv, LabelsHaveVotes
<1> QED BY <1>4, <1>8, <1>10, <1>11 DEF RitualInv, OnlyClassified

\* A step that only moves one tap, to a stage its answer allows.
LEMMA TapOnlyMoves ==
    ASSUME RitualInv, NEW t \in Taps, NEW a \in {"label", "failed"},
           tap[t].at \in {"vote", "confirm", "label"},
           a = "label" => tap[t].at = "confirm",
           tap' = [tap EXCEPT ![t].at = a],
           UNCHANGED <<ritualNow, ritualRuns, toAsk, askedAt, labels, asked, votes>>
    PROVE  RitualInv'
<1>0. RitualTypes /\ Len(labels) \in Nat /\ tap[t] \in TapRows /\ TapOK(tap[t])
  BY DEF RitualInv, RitualTypes
<1>1. PICK r : r = [tap[t] EXCEPT !.at = a]
  OBVIOUS
<1>2. tap' = [tap EXCEPT ![t] = r]
  BY <1>1
<1>3. /\ r \in TapRows /\ r.at = a
      /\ r.row = tap[t].row /\ r.answer = tap[t].answer /\ r.seen = tap[t].seen
  BY <1>0, <1>1 DEF TapRows
<1>4. TapOK(r)
  BY <1>0, <1>3 DEF TapOK
<1>5. TapOK(r)'
  BY <1>4 DEF TapOK, VoteFor
<1>6. RitualTypes'
  BY <1>0, <1>2, <1>3 DEF RitualTypes
<1>7. RowsKept
  BY <1>0 DEF RowsKept
<1>8. (\A u \in Taps : TapOK(tap[u]))'
  BY <1>2, <1>3, <1>5, <1>6, <1>7, OneTapMoves
<1> QED BY <1>6, <1>8 DEF RitualInv, OnlyClassified, LabelsHaveVotes

\* Confirm: the tap has voted, its label is next.
LEMMA ConfirmStep == ASSUME RitualInv, NEW t \in Taps, Confirm(t) PROVE RitualInv'
BY TapOnlyMoves DEF Confirm

\* A tap that failed is never labelled.
LEMMA TapFailsStep == ASSUME RitualInv, NEW t \in Taps, TapFails(t) PROVE RitualInv'
BY TapOnlyMoves DEF TapFails, AfterFailure

\* The label comes last: a true or false one finds its vote.
LEMMA UpdateLabelStep == ASSUME RitualInv, NEW t \in Taps, UpdateLabel(t) PROVE RitualInv'
<1>0. RitualTypes /\ Len(labels) \in Nat /\ tap[t] \in TapRows /\ TapOK(tap[t])
  BY DEF RitualInv, RitualTypes
<1>1. PICK r : r = [tap[t] EXCEPT !.at = "done"]
  OBVIOUS
<1>2. PICK n : n = tap[t].row
  OBVIOUS
<1>3. PICK w : w = tap[t].answer
  OBVIOUS
<1>4. /\ tap[t].at = "label" /\ tap' = [tap EXCEPT ![t] = r]
      /\ labels' = [labels EXCEPT ![n].label = w]
      /\ UNCHANGED <<ritualNow, ritualRuns, toAsk, askedAt, asked, votes, confirmed>>
  BY <1>1, <1>2, <1>3 DEF UpdateLabel
<1>5. /\ r \in TapRows /\ r.at = "done"
      /\ r.row = n /\ r.answer = w /\ r.seen = tap[t].seen
  BY <1>0, <1>1, <1>2, <1>3 DEF TapRows
<1>6. /\ n \in 1..Len(labels) /\ r.seen - labels[n].asked <= Window
      /\ w \in {"true", "false", "unsure"}
      /\ w \in {"true", "false"} => VoteFor(labels[n], w) \in votes
  BY <1>0, <1>2, <1>3, <1>4, <1>5 DEF TapOK, TapRows
<1>7. PICK l : l = [labels[n] EXCEPT !.label = w]
  OBVIOUS
<1>8. /\ l \in LabelRows /\ l.label = w /\ l.fact = labels[n].fact
      /\ l.session = labels[n].session /\ l.asked = labels[n].asked
  BY <1>0, <1>6, <1>7, LabelElement DEF LabelRows
<1>9. /\ labels' = [labels EXCEPT ![n] = l] /\ labels \in Seq(LabelRows)
  BY <1>0, <1>4, <1>7 DEF RitualTypes
<1>10. /\ labels' \in Seq(LabelRows) /\ Len(labels') = Len(labels)
       /\ \A k \in 1..Len(labels) : labels'[k] = IF k = n THEN l ELSE labels[k]
  BY <1>6, <1>8, <1>9, ExceptSeq
<1>11. RitualTypes'
  BY <1>0, <1>4, <1>5, <1>10 DEF RitualTypes
<1>12. RowsKept
  BY <1>0, <1>4, <1>8, <1>10 DEF RowsKept
<1>13. TapOK(r)'
  BY <1>4, <1>5, <1>6, <1>8, <1>10 DEF TapOK
<1>14. (\A u \in Taps : TapOK(tap[u]))'
  BY <1>4, <1>5, <1>11, <1>12, <1>13, OneTapMoves
<1>15. OnlyClassified'
  BY <1>4, <1>8, <1>10 DEF RitualInv, OnlyClassified
<1>16. LabelsHaveVotes'
  <2>1. DOMAIN labels = 1..Len(labels) /\ DOMAIN labels' = 1..Len(labels)
    BY <1>9, <1>10
  <2> SUFFICES ASSUME NEW k \in 1..Len(labels), labels'[k].label \in {"true", "false"}
               PROVE  [fact |-> labels'[k].fact, session |-> labels'[k].session,
                       polarity |-> IF labels'[k].label = "true" THEN 1 ELSE -1] \in votes
    BY <1>4, <2>1 DEF LabelsHaveVotes
  <2>2. CASE k = n
    <3>1. labels'[k] = l
      BY <1>10, <2>2
    <3>2. w \in {"true", "false"} /\ VoteFor(labels[n], w) \in votes
      BY <1>6, <1>8, <3>1
    <3> QED BY <1>8, <3>1, <3>2 DEF VoteFor
  <2>3. CASE k # n
    <3>1. labels'[k] = labels[k]
      BY <1>10, <2>3
    <3> QED BY <2>1, <3>1 DEF RitualInv, LabelsHaveVotes
  <2> QED BY <2>2, <2>3
<1> QED BY <1>11, <1>14, <1>15, <1>16 DEF RitualInv

\* A fact that may be asked about has a plain source and no secret one.
LEMMA ClassifiedIsPlain ==
    ASSUME NEW f \in RitualFacts, Classify(f)
    PROVE  LET from == {Provenance[f][k] : k \in DOMAIN Provenance[f]}
           IN "secret" \notin from /\ "plain" \in from
<1>1. Provenance[f] \in Seq({"plain", "secret", "unknown"})
  BY RitualAssumption
<1>2. DOMAIN Provenance[f] = 1..Len(Provenance[f])
  BY <1>1
<1>3. \A k \in DOMAIN Provenance[f] : Provenance[f][k] \in {"plain", "secret", "unknown"}
  BY <1>1, <1>2, ElementOfSeq
<1> QED BY <1>3 DEF Classify

\* What the promise says follows from the invariant.
LEMMA RitualPromise == RitualInv => TapsCountRightly
<1> SUFFICES ASSUME RitualInv PROVE TapsCountRightly
  OBVIOUS
<1>1. RitualTypes /\ DOMAIN labels = 1..Len(labels)
  BY DEF RitualInv, RitualTypes
<1>2. NothingSecretAsked
  <2> SUFFICES ASSUME NEW i \in DOMAIN labels
               PROVE  LET from == {Provenance[labels[i].fact][k] :
                                     k \in DOMAIN Provenance[labels[i].fact]}
                      IN "secret" \notin from /\ "plain" \in from
    BY DEF NothingSecretAsked
  <2>1. PICK f : f = labels[i].fact
    OBVIOUS
  <2>2. f \in RitualFacts /\ Classify(f)
    BY <1>1, <2>1, LabelElement DEF LabelRows, RitualInv, OnlyClassified
  <2>3. LET from == {Provenance[f][k] : k \in DOMAIN Provenance[f]}
        IN "secret" \notin from /\ "plain" \in from
    BY <2>2, ClassifiedIsPlain
  <2> QED BY <2>1, <2>3
<1>3. ExpiredTapsAreIdle
  BY DEF RitualInv, TapOK, ExpiredTapsAreIdle
<1> QED BY <1>2, <1>3 DEF RitualInv, TapsCountRightly

\* Whatever way the taps interleave, fail, repeat or contradict each other:
\* nothing secret is asked, no label is ahead of its vote, no late tap counts.
THEOREM TapsAreCounted == RitualSpec => []TapsCountRightly
<1>1. ASSUME RitualInv, [RitualNext]_ritualVars PROVE RitualInv'
  <2>1. CASE RitualTick \/ StartRitual \/ AskCut \/ UNCHANGED ritualVars
    BY <1>1, <2>1, RunStep
  <2>2. CASE Ask
    BY <1>1, <2>2, AskStep
  <2>3. ASSUME NEW t \in Taps,
               Answer(t) \/ Vote(t) \/ Confirm(t) \/ UpdateLabel(t) \/ TapFails(t)
        PROVE  RitualInv'
    BY <1>1, <2>3, AnswerStep, VoteStep, ConfirmStep, UpdateLabelStep, TapFailsStep
  <2> QED BY <1>1, <2>1, <2>2, <2>3 DEF RitualNext
<1>2. RitualSpec => []RitualInv
  BY <1>1, InitRitual, PTL DEF RitualSpec
<1> QED BY <1>2, RitualPromise, PTL

-----------------------------------------------------------------------------
(* The life of the daemon's process.                                       *)

DaemonSafety == DaemonInit /\ [][DaemonNext]_daemonVars

\* Where a process holds the lock, listens on the port, has the database open,
\* may have ticks and may have goroutines.
Serving == {"scan", "ticks", "spawn", "probe", "listen", "serve"}
Locked == {"open", "migrate", "wire", "port", "drain", "unlock"} \cup Serving
Ported == {"drain", "unlock", "stop", "join", "push", "stopTicks", "closePort"} \cup Serving
Opened == {"migrate", "wire", "port", "closeDB"} \cup Ported
Ticked == {"spawn", "probe", "listen", "serve", "drain", "unlock", "stop", "join", "push", "stopTicks"}
Grouped == {"probe", "listen", "serve", "drain", "unlock", "stop", "join"}

DaemonTypes ==
    /\ at \in [Daemons -> {"off", "lock", "exit"} \cup Locked \cup Opened]
    /\ lock \in Daemons \cup {NoDaemon} /\ port \in Daemons \cup {NoDaemon}
    /\ sock \in Daemons \cup {NoDaemon}
    /\ open \subseteq Daemons /\ listening \subseteq Daemons
    /\ ticking \subseteq Daemons /\ tick \subseteq Daemons /\ cancelled \subseteq Daemons
    /\ bg \in [Daemons -> SUBSET Goroutines]

\* What a process has follows from where it is.  The lock goes before the port
\* and the port before the database; ticks and goroutines end before both.
ProcessOK(d) ==
    /\ at[d] \in Locked => lock = d
    /\ at[d] \in Ported => port = d
    /\ d \in open <=> at[d] \in Opened
    /\ d \in listening => at[d] = "serve"
    /\ at[d] = "serve" => sock = d
    /\ d \in ticking \cup tick => at[d] \in Ticked
    /\ bg[d] # {} => at[d] \in Grouped

DaemonInv == DaemonTypes /\ \A d \in Daemons : ProcessOK(d)

\* A process that starts takes what it needs or leaves.
LEMMA StartsApart ==
    ASSUME DaemonInv, NEW d \in Daemons,
           \/ Boot(d) \/ AcquireStartupLock(d) \/ OpenStore(d) \/ Migrate(d)
           \/ Wire(d) \/ StartEgress(d) \/ BootScan(d) \/ StartTicks(d)
           \/ SpawnBackground(d) \/ ProbeSocket(d) \/ Listen(d)
    PROVE  DaemonInv'
<1> USE DaemonsAssumption DEF DaemonInv, DaemonTypes, ProcessOK, Serving, Locked, Ported, Opened, Ticked, Grouped
<1>1. CASE Boot(d)
  BY <1>1 DEF Boot, Go
<1>2. CASE AcquireStartupLock(d)
  BY <1>2 DEF AcquireStartupLock, Go
<1>3. CASE OpenStore(d)
  BY <1>3 DEF OpenStore, Go
<1>4. CASE Migrate(d)
  BY <1>4 DEF Migrate, Go
<1>5. CASE Wire(d)
  BY <1>5 DEF Wire, Go
<1>6. CASE StartEgress(d)
  BY <1>6 DEF StartEgress, Go
<1>7. CASE BootScan(d)
  BY <1>7 DEF BootScan, Go
<1>8. CASE StartTicks(d)
  BY <1>8 DEF StartTicks, Go
<1>9. CASE SpawnBackground(d)
  BY <1>9 DEF SpawnBackground, Go, Goroutines
<1>10. CASE ProbeSocket(d)
  BY <1>10 DEF ProbeSocket, Go, probeHealth
<1>11. CASE Listen(d)
  BY <1>11 DEF Listen, Go
<1> QED BY <1>1, <1>2, <1>3, <1>4, <1>5, <1>6, <1>7, <1>8, <1>9, <1>10, <1>11

\* A process that runs, is told to stop, fails or is killed.
LEMMA RunsApart ==
    ASSUME DaemonInv, NEW d \in Daemons,
           \/ TickStart(d) \/ TickEnd(d) \/ Signal(d) \/ ServeFails(d)
           \/ Killed(d)
    PROVE  DaemonInv'
<1> USE DaemonsAssumption DEF DaemonInv, DaemonTypes, ProcessOK, Serving, Locked, Ported, Opened, Ticked, Grouped
<1>1. CASE TickStart(d)
  BY <1>1 DEF TickStart, Go
<1>2. CASE TickEnd(d)
  BY <1>2 DEF TickEnd, Go
<1>3. CASE Signal(d)
  BY <1>3 DEF Signal, Go
<1>4. CASE ServeFails(d)
  BY <1>4 DEF ServeFails, Go
<1>5. CASE Killed(d)
  BY <1>5 DEF Killed, Go
<1> QED BY <1>1, <1>2, <1>3, <1>4, <1>5

\* A process that closes down lets go in the order of its deferred calls.
LEMMA ClosesApart ==
    ASSUME DaemonInv, NEW d \in Daemons,
           \/ CloseListener(d) \/ RemoveThenUnlock(d) \/ Stop(d) \/ Join(d)
           \/ LastPush(d) \/ DeferredCloses(d) \/ CloseStore(d) \/ Exit(d)
           \/ \E g \in Goroutines : GoroutineEnds(d, g)
    PROVE  DaemonInv'
<1> USE DaemonsAssumption DEF DaemonInv, DaemonTypes, ProcessOK, Serving, Locked, Ported, Opened, Ticked, Grouped
<1>1. CASE CloseListener(d)
  BY <1>1 DEF CloseListener, Go
<1>2. CASE RemoveThenUnlock(d)
  BY <1>2 DEF RemoveThenUnlock, Go
<1>3. CASE Stop(d)
  BY <1>3 DEF Stop, Go
<1>4. CASE Join(d)
  BY <1>4 DEF Join, Go, Joined
<1>5. CASE LastPush(d)
  BY <1>5 DEF LastPush, Go
<1>6. CASE DeferredCloses(d)
  BY <1>6 DEF DeferredCloses, Go
<1>7. CASE CloseStore(d)
  BY <1>7 DEF CloseStore, Go
<1>8. CASE Exit(d)
  BY <1>8 DEF Exit, Go
<1>9. ASSUME NEW g \in Goroutines, GoroutineEnds(d, g) PROVE DaemonInv'
  BY <1>9 DEF GoroutineEnds
<1> QED BY <1>1, <1>2, <1>3, <1>4, <1>5, <1>6, <1>7, <1>8, <1>9

\* Nothing runs at the start.
LEMMA InitDaemon == DaemonInit => DaemonInv
BY DEF DaemonInit, DaemonInv, DaemonTypes, ProcessOK, Serving, Locked, Ported, Opened, Ticked, Grouped

\* What the invariant says of two processes.
LEMMA ProcessesApart == DaemonInv => DaemonsApart /\ NoUseAfterClose
<1> SUFFICES ASSUME DaemonInv PROVE DaemonsApart /\ NoUseAfterClose
  OBVIOUS
<1>1. ServesAlone
  BY DEF DaemonInv, DaemonTypes, ProcessOK, ServesAlone
<1>2. ScansAlone
  <2>1. ASSUME NEW d \in Daemons, NEW e \in Daemons, d # e, Alone(d)
        PROVE  at[e] \notin Locked \cup Ported
    BY <2>1 DEF DaemonInv, ProcessOK, Alone, Serving, Locked, Ported
  <2>2. Serving \subseteq Locked /\ Ticked \subseteq Ported /\ Grouped \subseteq Ported
    BY DEF Serving, Locked, Ticked, Ported, Grouped
  <2> QED BY <2>1, <2>2 DEF DaemonInv, ProcessOK, ScansAlone, Alone, Serving, Ported
<1>3. OneOpener
  <2>1. Opened \subseteq Locked \cup Closing
    BY DEF Opened, Ported, Serving, Locked, Closing
  <2> QED BY <2>1 DEF DaemonInv, DaemonTypes, ProcessOK, OneOpener
<1>4. NoUseAfterClose
  <2>1. Ticked \subseteq Opened /\ Grouped \subseteq Opened
    BY DEF Ticked, Opened, Ported, Serving, Grouped
  <2> QED BY <2>1 DEF DaemonInv, ProcessOK, NoUseAfterClose
<1> QED BY <1>1, <1>2, <1>3, <1>4 DEF DaemonsApart

\* However many processes launchd and the user start, close and kill, at
\* whatever step: one serves and its socket is its own, one scans and no tick
\* or goroutine of another runs meanwhile, one opens the database at its start,
\* and none uses it closed.
THEOREM DaemonsStayApart == DaemonSafety => [](DaemonsApart /\ NoUseAfterClose)
<1>1. DaemonInv /\ [DaemonNext]_daemonVars => DaemonInv'
  <2>1. ASSUME DaemonInv, NEW d \in Daemons,
               \/ Boot(d) \/ AcquireStartupLock(d) \/ OpenStore(d) \/ Migrate(d) \/ Wire(d)
               \/ StartEgress(d) \/ BootScan(d) \/ StartTicks(d) \/ SpawnBackground(d)
               \/ ProbeSocket(d) \/ Listen(d)
               \/ TickStart(d) \/ TickEnd(d) \/ Signal(d) \/ ServeFails(d) \/ Killed(d)
               \/ CloseStep(d)
        PROVE  DaemonInv'
    BY <2>1, StartsApart, RunsApart, ClosesApart DEF CloseStep
  <2>2. DaemonInv /\ UNCHANGED daemonVars => DaemonInv'
    BY DEF daemonVars, DaemonInv, DaemonTypes, ProcessOK
  <2> QED BY <2>1, <2>2 DEF DaemonNext
<1> QED BY <1>1, InitDaemon, ProcessesApart, PTL DEF DaemonSafety

-----------------------------------------------------------------------------
(* The process tools.                                                      *)

RunSafety == ToolInit /\ [][ToolNext]_toolVars

\* Where a call may be with the network made, behind the rule it has checked,
\* and with a process.
Networked == {"rule", "sidecar", "rm", "run", "bridge", "verify"}
PastRule == {"sidecar", "rm", "run", "bridge", "verify", "health", "policy", "launch", "wait", "kill"}
RunPcs == {"idle", "network", "create", "ended"} \cup Networked \cup PastRule

RunRows == [pc : RunPcs, kind : {"none", "docker", "host", "script", "shortcut"}, net : BOOLEAN,
            vm : Nat, out : {"none", "refused", "done", "timeout", "kill_failed", "cancelled", "lost"}]

RunTypes ==
    /\ runCall \in [Runs -> RunRows]
    /\ procs \in [Runs -> {"none", "running", "gone"}]
    /\ proxyTokens \subseteq Runs /\ killer \subseteq Runs
    /\ egNet \in BOOLEAN /\ dropRule \in BOOLEAN
    /\ sidecar \in {"none", "running", "bridged"} /\ (sidecar # "none" => egNet)
    /\ vm \in Nat

\* What a call and its process have behind them.  The rule holds in the life
\* of the machine in which it was checked, up to the end of the container.
RunOK(c) ==
    /\ runCall[c].net => runCall[c].kind = "docker"
    /\ runCall[c].pc \in Networked => egNet
    /\ runCall[c].vm <= vm
    /\ runCall[c].pc \in {"network", "create", "rule"} \cup (PastRule \ {"health", "policy", "launch", "wait"})
          => runCall[c].kind = "docker"
    /\ runCall[c].net /\ runCall[c].vm = vm
         /\ (runCall[c].pc \in PastRule \/ procs[c] = "running") => dropRule
    /\ procs[c] # "none" => runCall[c].pc \in {"wait", "kill", "ended"}
    /\ c \in proxyTokens => runCall[c].pc \notin {"idle", "ended"}
    /\ runCall[c].pc = "ended" /\ procs[c] = "running" =>
          \/ runCall[c].out = "lost"
          \/ runCall[c].kind = "docker" /\ runCall[c].out \in {"kill_failed", "cancelled"}

\* Listed containers have run.
KillerOK == \A c \in killer : procs[c] # "none"

RunInv == RunTypes /\ KillerOK /\ \A c \in Runs : RunOK(c)

\* One call moves on to the row r; what it and the tools' state are then is all
\* that is to be shown.
LEMMA OneRunMoves ==
    ASSUME RunInv, NEW c \in Runs, NEW r \in RunRows, runCall' = [runCall EXCEPT ![c] = r],
           procs' \in [Runs -> {"none", "running", "gone"}],
           \A x \in Runs : x # c => procs'[x] = procs[x],
           proxyTokens' \subseteq proxyTokens \cup {c}, killer' = killer,
           egNet' \in BOOLEAN, dropRule' \in BOOLEAN, (egNet => egNet'), (dropRule => dropRule'),
           sidecar' \in {"none", "running", "bridged"}, (sidecar' # "none" => egNet'),
           vm' = vm, procs'[c] = "none" => procs[c] = "none", RunOK(c)'
    PROVE  RunInv'
<1>1. RunTypes'
  BY DEF RunInv, RunTypes
<1>2. KillerOK'
  <2>1. c \in killer => procs'[c] # "none"
    BY DEF RunInv, KillerOK
  <2> QED BY <2>1 DEF RunInv, RunTypes, KillerOK
<1>3. ASSUME NEW x \in Runs, x # c PROVE RunOK(x)'
  <2>1. runCall'[x] = runCall[x] /\ procs'[x] = procs[x] /\ (x \in proxyTokens' => x \in proxyTokens)
    BY <1>3 DEF RunInv, RunTypes
  <2>2. RunOK(x)
    BY DEF RunInv
  <2> QED BY <2>1, <2>2 DEF RunOK
<1> QED BY <1>1, <1>2, <1>3 DEF RunInv

\* The row of a call that returns before it has a process.
LEMMA RunFails ==
    ASSUME RunInv, NEW c \in Runs, runCall[c].pc \notin {"idle", "wait", "kill", "ended"},
           CommandFails(c)
    PROVE  RunInv'
<1>1. PICK r : r = [runCall[c] EXCEPT !.pc = "ended", !.out = "refused"]
  OBVIOUS
<1>2. runCall[c] \in RunRows
  BY DEF RunInv, RunTypes
<1>3. /\ r \in RunRows /\ r.pc = "ended" /\ r.out = "refused"
      /\ r.kind = runCall[c].kind /\ r.net = runCall[c].net /\ r.vm = runCall[c].vm
  BY <1>1, <1>2 DEF RunRows, RunPcs
<1>4. /\ runCall' = [runCall EXCEPT ![c] = r] /\ runCall'[c] = r
      /\ proxyTokens' = proxyTokens \ {c} /\ UNCHANGED <<egNet, dropRule, sidecar, vm, procs, killer>>
  BY <1>1 DEF CommandFails, Return, dockerVars, RunInv, RunTypes
<1>5. procs[c] = "none"
  BY DEF RunInv, RunOK, RunTypes
<1>6. RunOK(c)'
  BY <1>3, <1>4, <1>5 DEF RunInv, RunOK, Networked, PastRule
<1> QED BY <1>3, <1>4, <1>6, OneRunMoves DEF RunInv, RunTypes

\* A call whose arguments are accepted begins with nothing.
LEMMA RunBegins ==
    ASSUME RunInv, NEW c \in Runs, NEW kind \in {"docker", "host", "script", "shortcut"},
           NEW net \in BOOLEAN, NEW accepted \in BOOLEAN, net => kind = "docker",
           Begin(c, kind, net, accepted,
                 IF kind # "docker" THEN "policy" ELSE IF net THEN "network" ELSE "health")
    PROVE  RunInv'
<1> DEFINE first == IF kind # "docker" THEN "policy" ELSE IF net THEN "network" ELSE "health"
<1>1. PICK r : r = [NoRun EXCEPT !.kind = kind, !.net = net, !.pc = IF accepted THEN first ELSE "ended",
                                 !.out = IF accepted THEN "none" ELSE "refused"]
  OBVIOUS
<1>2. /\ r.kind = kind /\ r.net = net /\ r.vm = 0 /\ r \in RunRows
      /\ r.pc \in {"network", "policy", "health", "ended"}
      /\ r.pc = "network" => r.kind = "docker"
      /\ r.net => r.pc \in {"network", "ended"}
  BY <1>1 DEF NoRun, RunRows, RunPcs, Networked, PastRule
<1>3. /\ runCall' = [runCall EXCEPT ![c] = r] /\ runCall'[c] = r /\ runCall[c].pc = "idle"
      /\ UNCHANGED <<egNet, dropRule, sidecar, vm, proxyTokens, procs, killer>>
  BY <1>1 DEF Begin, RunAt, dockerVars, RunInv, RunTypes
<1>4. procs[c] = "none" /\ c \notin proxyTokens
  BY <1>3 DEF RunInv, RunTypes, RunOK
<1>5. RunOK(c)'
  BY <1>2, <1>3, <1>4 DEF RunInv, RunTypes, RunOK, Networked, PastRule
<1> QED BY <1>2, <1>3, <1>5, OneRunMoves DEF RunInv, RunTypes

\* Making the network.
LEMMA RunCreates == ASSUME RunInv, NEW c \in Runs, CreateNetwork(c) PROVE RunInv'
<1>1. CASE CommandFails(c)
  BY <1>1, RunFails DEF CreateNetwork, RunAt
<1>2. CASE ~CommandFails(c)
  <2>1. PICK r : r = [runCall[c] EXCEPT !.pc = "rule"]
    OBVIOUS
  <2>2. runCall[c] \in RunRows /\ runCall[c].pc = "create"
    BY DEF CreateNetwork, RunAt, RunInv, RunTypes
  <2>3. /\ r \in RunRows /\ r.pc = "rule" /\ r.kind = runCall[c].kind /\ r.net = runCall[c].net
        /\ r.vm = runCall[c].vm
    BY <2>1, <2>2 DEF RunRows, RunPcs, Networked
  <2>4. /\ runCall' = [runCall EXCEPT ![c] = r] /\ runCall'[c] = r /\ egNet'
        /\ UNCHANGED <<dropRule, sidecar, vm, proxyTokens, procs, killer>>
    BY <1>2, <2>1 DEF CreateNetwork, GoTo, RunInv, RunTypes
  <2>5. RunOK(c)'
    BY <2>2, <2>3, <2>4 DEF RunInv, RunTypes, RunOK, Networked, PastRule
  <2>6. egNet' = TRUE
    BY <1>2 DEF CreateNetwork
  <2> QED BY <2>3, <2>4, <2>5, <2>6, OneRunMoves DEF RunInv, RunTypes
<1> QED BY <1>1, <1>2

\* Looking up the rule of the network's gateway, in this life of the machine.
LEMMA RunIsolates == ASSUME RunInv, NEW c \in Runs, EnsureGatewayIsolation(c) PROVE RunInv'
<1>1. CASE CommandFails(c)
  BY <1>1, RunFails DEF EnsureGatewayIsolation, RunAt
<1>2. CASE ~CommandFails(c)
  <2>1. PICK r : r = [runCall[c] EXCEPT !.pc = "sidecar", !.vm = vm]
    OBVIOUS
  <2>2. runCall[c] \in RunRows /\ runCall[c].pc = "rule"
    BY DEF EnsureGatewayIsolation, RunAt, RunInv, RunTypes
  <2>3. /\ r \in RunRows /\ r.pc = "sidecar" /\ r.kind = runCall[c].kind /\ r.net = runCall[c].net
        /\ r.vm = vm
    BY <2>1, <2>2 DEF RunRows, RunPcs, PastRule, RunInv, RunTypes
  <2>4. /\ runCall' = [runCall EXCEPT ![c] = r] /\ runCall'[c] = r /\ dropRule' = TRUE
        /\ UNCHANGED <<egNet, sidecar, vm, proxyTokens, procs, killer>>
    BY <1>2, <2>1 DEF EnsureGatewayIsolation, RunInv, RunTypes
  <2>5. RunOK(c)'
    BY <2>2, <2>3, <2>4 DEF RunInv, RunTypes, RunOK, Networked, PastRule
  <2> QED BY <2>3, <2>4, <2>5, OneRunMoves DEF RunInv, RunTypes
<1> QED BY <1>1, <1>2

\* A call returns when its process has ended, or because its caller hung up.
LEMMA RunReturns ==
    ASSUME RunInv, NEW c \in Runs, Finish(c) \/ Cancel(c)
    PROVE  RunInv'
<1>1. PICK r : \/ r = [runCall[c] EXCEPT !.pc = "ended", !.out = "done"] /\ Finish(c)
               \/ r = [runCall[c] EXCEPT !.pc = "ended", !.out = "cancelled"] /\ Cancel(c)
  OBVIOUS
<1>2. runCall[c] \in RunRows /\ runCall[c].pc = "wait"
  BY DEF Finish, Cancel, RunAt, RunInv, RunTypes
<1>3. /\ r \in RunRows /\ r.pc = "ended" /\ r.kind = runCall[c].kind /\ r.net = runCall[c].net
      /\ r.vm = runCall[c].vm /\ r.out \in {"done", "cancelled"}
      /\ r.out = "cancelled" <=> Cancel(c) /\ r.out = "cancelled"
  BY <1>1, <1>2 DEF RunRows, RunPcs
<1>4. /\ runCall' = [runCall EXCEPT ![c] = r] /\ runCall'[c] = r
      /\ proxyTokens' = proxyTokens \ {c}
      /\ UNCHANGED <<egNet, dropRule, sidecar, vm, killer>>
  BY <1>1 DEF Finish, Cancel, Return, dockerVars, RunInv, RunTypes
<1>5. /\ procs' \in [Runs -> {"none", "running", "gone"}]
      /\ \A x \in Runs : x # c => procs'[x] = procs[x]
      /\ procs'[c] \in {procs[c], "gone"}
      /\ procs'[c] = "running" => r.kind = "docker" /\ r.out = "cancelled"
  <2>1. CASE r.out = "done"
    <3>1. Finish(c)
      BY <1>1, <1>2, <2>1 DEF RunRows
    <3> QED BY <2>1, <3>1 DEF Finish, RunInv, RunTypes
  <2>2. CASE r.out = "cancelled"
    <3>1. Cancel(c)
      BY <1>1, <1>2, <2>2 DEF RunRows
    <3> QED BY <1>3, <2>2, <3>1 DEF Cancel, RunInv, RunTypes
  <2> QED BY <1>3, <2>1, <2>2
<1>6. RunOK(c)'
  BY <1>2, <1>3, <1>4, <1>5 DEF RunInv, RunTypes, RunOK, Networked, PastRule
<1> QED BY <1>3, <1>4, <1>5, <1>6, OneRunMoves DEF RunInv, RunTypes

\* Every step of a call.
LEMMA RunSteps == ASSUME RunInv, NEW c \in Runs, ToolStep(c) PROVE RunInv'
<1>1. CASE EnsureNetwork(c)
  BY <1>1 DEF EnsureNetwork, RunAt, GoTo, dockerVars,
     RunInv, RunTypes, KillerOK, RunOK, RunRows, RunPcs, Networked, PastRule
<1>2. CASE CreateNetwork(c)
  BY <1>2, RunCreates
<1>3. CASE EnsureGatewayIsolation(c)
  BY <1>3, RunIsolates
<1>4. CASE EnsureSidecar(c)
  BY <1>4 DEF EnsureSidecar, RunAt, GoTo, dockerVars,
     RunInv, RunTypes, KillerOK, RunOK, RunRows, RunPcs, Networked, PastRule
<1>5. CASE RemoveStaleSidecar(c)
  BY <1>5 DEF RemoveStaleSidecar, RunAt, GoTo, dockerVars,
     RunInv, RunTypes, KillerOK, RunOK, RunRows, RunPcs, Networked, PastRule
<1>6. CASE RunSidecar(c)
  BY <1>6 DEF RunSidecar, RunAt, GoTo, dockerVars, CommandFails, Return,
     RunInv, RunTypes, KillerOK, RunOK, RunRows, RunPcs, Networked, PastRule
<1>7. CASE ConnectBridge(c)
  BY <1>7 DEF ConnectBridge, RunAt, GoTo, dockerVars, CommandFails, Return,
     RunInv, RunTypes, KillerOK, RunOK, RunRows, RunPcs, Networked, PastRule
<1>8. CASE VerifyAndRegister(c)
  BY <1>8 DEF VerifyAndRegister, RunAt, GoTo, dockerVars, CommandFails, Return,
     RunInv, RunTypes, KillerOK, RunOK, RunRows, RunPcs, Networked, PastRule
<1>9. CASE CheckDocker(c)
  BY <1>9 DEF CheckDocker, RunAt, GoTo, dockerVars, CommandFails, Return,
     RunInv, RunTypes, KillerOK, RunOK, RunRows, RunPcs, Networked, PastRule
<1>10. CASE CheckPolicy(c)
  BY <1>10 DEF CheckPolicy, RunAt, GoTo, dockerVars, CommandFails, Return,
     RunInv, RunTypes, KillerOK, RunOK, RunRows, RunPcs, Networked, PastRule
<1>11. CASE Launch(c)
  BY <1>11 DEF Launch, RunAt, GoTo, dockerVars, CommandFails, Return,
     RunInv, RunTypes, KillerOK, RunOK, RunRows, RunPcs, Networked, PastRule
<1>12. CASE Finish(c)
  BY <1>12, RunReturns
<1>13. CASE Timeout(c)
  BY <1>13 DEF Timeout, RunAt, GoTo, dockerVars, Return,
     RunInv, RunTypes, KillerOK, RunOK, RunRows, RunPcs, Networked, PastRule
<1>14. CASE KillContainer(c)
  BY <1>14 DEF KillContainer, RunAt, GoTo, dockerVars, Return,
     RunInv, RunTypes, KillerOK, RunOK, RunRows, RunPcs, Networked, PastRule
<1> QED BY <1>1, <1>2, <1>3, <1>4, <1>5, <1>6, <1>7, <1>8, <1>9, <1>10, <1>11, <1>12, <1>13, <1>14 DEF ToolStep

\* What the system, the caller and the halt key do to processes.
LEMMA RunSurroundings ==
    ASSUME RunInv, NEW c \in Runs,
           ProcessEnds(c) \/ Cancel(c) \/ KillListed(c) \/ KillLabeled(RunTask[c])
    PROVE  RunInv'
<1>1. CASE ProcessEnds(c) \/ KillListed(c)
  <2>1. /\ UNCHANGED <<runCall, egNet, dropRule, sidecar, vm, proxyTokens>>
        /\ procs' \in {procs, [procs EXCEPT ![c] = "gone"]} /\ killer' \subseteq killer
    BY <1>1 DEF ProcessEnds, KillListed, dockerVars
  <2>2. c \in killer => procs[c] # "none"
    BY DEF RunInv, KillerOK
  <2>3. /\ procs' \in [Runs -> {"none", "running", "gone"}]
        /\ \A x \in Runs : procs'[x] = procs[x] \/ (procs'[x] = "gone" /\ procs[x] # "none")
    <3>1. procs[c] # "none"
      BY <1>1, <2>2 DEF KillListed, ProcessEnds
    <3>2. procs \in [Runs -> {"none", "running", "gone"}]
      BY DEF RunInv, RunTypes
    <3> QED BY <2>1, <3>1, <3>2
  <2>4. \A x \in Runs : RunOK(x)'
    BY <2>1, <2>3 DEF RunInv, RunOK
  <2> QED BY <2>1, <2>3, <2>4 DEF RunInv, RunTypes, KillerOK
<1>2. CASE Cancel(c)
  BY <1>2, RunReturns
<1>3. CASE KillLabeled(RunTask[c])
  BY <1>3 DEF KillLabeled, Containers, dockerVars, RunInv, RunTypes, RunOK, KillerOK
<1> QED BY <1>1, <1>2, <1>3

\* The machine or the daemon restarts.
LEMMA RunRestarts == ASSUME RunInv, VmRestart \/ ToolsRestart PROVE RunInv'
<1>1. CASE VmRestart
  <2>1. /\ UNCHANGED <<runCall, egNet, sidecar, proxyTokens, killer>> /\ vm' = vm + 1 /\ dropRule' = FALSE
        /\ procs' \in [Runs -> {"none", "running", "gone"}]
        /\ \A x \in Runs :
              /\ procs'[x] # "none" <=> procs[x] # "none"
              /\ procs'[x] = "running" => procs[x] = "running" /\ runCall[x].kind # "docker"
    BY <1>1 DEF VmRestart, RunInv, RunTypes
  <2>2. ASSUME NEW x \in Runs PROVE RunOK(x)'
    <3>1. RunOK(x) /\ runCall[x].vm \in Nat /\ vm \in Nat
      BY DEF RunInv, RunTypes, RunRows
    <3>2. runCall[x].vm # vm + 1
      BY <3>1 DEF RunOK
    <3> QED BY <2>1, <3>1, <3>2 DEF RunOK
  <2>3. RunTypes'
    <3>1. vm' \in Nat
      BY <2>1 DEF RunInv, RunTypes
    <3>2. dropRule' \in BOOLEAN
      BY <2>1
    <3> QED BY <2>1, <3>1, <3>2 DEF RunInv, RunTypes
  <2>4. KillerOK'
    <3>1. \A x \in killer : procs[x] # "none" /\ x \in Runs
      BY DEF RunInv, RunTypes, KillerOK
    <3> QED BY <2>1, <3>1 DEF KillerOK
  <2> QED BY <2>2, <2>3, <2>4 DEF RunInv
<1>2. CASE ToolsRestart
  <2>1. UNCHANGED <<egNet, dropRule, sidecar, vm, procs>> /\ proxyTokens' = {} /\ killer' = {}
    BY <1>2 DEF ToolsRestart, dockerVars
  <2>2. ASSUME NEW x \in Runs
        PROVE  /\ runCall'[x] \in RunRows /\ runCall'[x].pc \in {"idle", "ended"}
               /\ \/ runCall'[x] = runCall[x]
                  \/ runCall'[x].out = "lost" /\ runCall'[x].pc = "ended" /\ runCall[x].pc # "idle"
               /\ runCall'[x].net = runCall[x].net /\ runCall'[x].kind = runCall[x].kind
               /\ runCall'[x].vm = runCall[x].vm
    <3>1. runCall[x] \in RunRows
      BY DEF RunInv, RunTypes
    <3>2. CASE runCall[x].pc \in {"idle", "ended"}
      <4>1. runCall'[x] = runCall[x]
        BY <1>2, <3>2 DEF ToolsRestart
      <4> QED BY <3>1, <3>2, <4>1
    <3>3. CASE runCall[x].pc \notin {"idle", "ended"}
      <4>1. runCall'[x] = [runCall[x] EXCEPT !.pc = "ended", !.out = "lost"]
        BY <1>2, <3>3 DEF ToolsRestart
      <4> QED BY <3>1, <3>3, <4>1 DEF RunRows, RunPcs
    <3> QED BY <3>2, <3>3
  <2>3. runCall' \in [Runs -> RunRows]
    <3>1. runCall' = [x \in Runs |-> runCall'[x]]
      BY <1>2 DEF ToolsRestart
    <3> QED BY <2>2, <3>1
  <2>4. ASSUME NEW x \in Runs PROVE RunOK(x)'
    BY <2>1, <2>2 DEF RunInv, RunTypes, RunOK, Networked, PastRule
  <2> QED BY <2>1, <2>3, <2>4 DEF RunInv, RunTypes, KillerOK
<1> QED BY <1>1, <1>2

\* Nothing runs at the start.
LEMMA InitRuns == ToolInit => RunInv
<1> SUFFICES ASSUME ToolInit PROVE RunInv
  OBVIOUS
<1>1. NoRun \in RunRows /\ NoRun.pc = "idle" /\ NoRun.net = FALSE /\ NoRun.vm = 0
  BY DEF NoRun, RunRows, RunPcs
<1>2. RunTypes
  BY <1>1 DEF ToolInit, RunTypes
<1>3. ASSUME NEW x \in Runs PROVE RunOK(x)
  BY <1>1 DEF ToolInit, RunOK, Networked, PastRule
<1> QED BY <1>2, <1>3 DEF ToolInit, RunInv, KillerOK

\* For any number of calls, tasks and restarts, of the machine or the daemon: a
\* container with network runs behind the rule it was checked under, a proxy
\* token ends with its call, and a call that has returned leaves nothing running.
THEOREM RunsStayConfined == RunSafety => [](ToolTypeOK /\ RunsAreKept)
<1>1. RunInv /\ [ToolNext]_toolVars => RunInv'
  <2> SUFFICES ASSUME RunInv, [ToolNext]_toolVars PROVE RunInv'
    OBVIOUS
  <2>1. ASSUME NEW c \in Runs, NEW net \in BOOLEAN, NEW dir \in Workdirs, RunDocker(c, net, dir)
        PROVE  RunInv'
    <3>1. WorkdirAccepted(dir) \in BOOLEAN
      BY DEF WorkdirAccepted
    <3> QED BY <2>1, <3>1, RunBegins DEF RunDocker
  <2>2. ASSUME NEW c \in Runs, NEW cmd \in HostCommands, HandleHostExec(c, cmd) PROVE RunInv'
    <3>1. HostAccepted(cmd) \in BOOLEAN
      BY DEF HostAccepted
    <3> QED BY <2>2, <3>1, RunBegins DEF HandleHostExec
  <2>3. ASSUME NEW c \in Runs, NEW script \in Scripts, RunScript(c, script) PROVE RunInv'
    <3>1. ScriptAccepted(script) \in BOOLEAN
      BY DEF ScriptAccepted
    <3> QED BY <2>3, <3>1, RunBegins DEF RunScript
  <2>4. ASSUME NEW c \in Runs, NEW name \in ShortcutNames, RunShortcut(c, name) PROVE RunInv'
    <3>1. (name # "empty") \in BOOLEAN
      OBVIOUS
    <3> QED BY <2>4, <3>1, RunBegins DEF RunShortcut
  <2>5. ASSUME UNCHANGED toolVars PROVE RunInv'
    BY <2>5 DEF toolVars, RunInv, RunTypes, KillerOK, RunOK, RunRows, RunPcs, Networked, PastRule
  <2> QED BY <2>1, <2>2, <2>3, <2>4, <2>5, RunSteps, RunSurroundings, RunRestarts DEF ToolNext
<1>2. RunInv => ToolTypeOK /\ RunsAreKept
  BY DEF RunsAreKept, ToolTypeOK, NetworkedBehindRule, TokensOnlyInFlight, NothingLeftRunning,
     RunInv, RunTypes, RunOK, RunRows, RunPcs, Networked, PastRule
<1> QED BY <1>1, <1>2, InitRuns, PTL DEF RunSafety

-----------------------------------------------------------------------------
(* Triggered jobs and the briefing.                                        *)

JobsSafety == JobsInit /\ [][JobsNext]_jobVars

\* The mutex is the job's, not the handler's: one job is configured to run the
\* briefing, as in the default configuration.
OneBriefing ==
    \A j, k \in JobHandlers :
        JobConfig[j] = BriefingHandler /\ JobConfig[k] = BriefingHandler => j = k

BriefRows ==
    [pc : {"none", "dedupe", "collect", "spawn", "deliver", "ledger", "save"},
     now : 0 .. MaxClock, files : SUBSET (Files \X (0 .. MaxClock)),
     prompt : SUBSET (Files \ SecretFiles)]
SentRows == [day : 0 .. MaxClock, lines : SUBSET Files, row : BOOLEAN]

JobTypes ==
    /\ JobsTypeOK
    /\ brief \in [Triggers -> BriefRows]
    /\ sent \in Seq(SentRows)

\* Whose handler runs holds the mutex of its job.
LockOK(t) ==
    /\ run[t] = "queued" => JobOf[t] \in JobHandlers
    /\ run[t] \in {"running", "ok", "error", "panic"} =>
          JobOf[t] \in JobHandlers /\ runLock[JobOf[t]] = t

\* What a run of the briefing remembers.  It began on a day no row is dated
\* with or after; it holds every change it will move the scan time past, first
\* in its own memory and then in the message.
BriefOK(t) ==
    LET b == brief[t]
    IN  b.pc # "none" =>
        /\ run[t] = "running" /\ IsBriefing(t)
        /\ b.pc # "dedupe" => b.now \in 1 .. clock
        /\ b.pc \in {"collect", "spawn", "deliver"} => \A d \in delivered : d < DayOf(b.now)
        /\ b.pc \in {"spawn", "deliver"} =>
              \A f \in Files : mtime[f] <= b.now /\ mtime[f] > scanned => <<f, mtime[f]>> \in b.files
        /\ b.pc = "ledger" => sent # <<>> /\ sent[Len(sent)].day = DayOf(b.now)
        /\ b.pc \in {"ledger", "save"} =>
              \A f \in Files : mtime[f] <= b.now => mtime[f] = 0 \/ <<f, mtime[f]>> \in told

\* Nothing is dated ahead of the clock; a message with its row has a date no
\* earlier than its day.
BooksOK ==
    /\ \A d \in delivered : d <= DayOf(clock)
    /\ \A f \in Files : mtime[f] <= clock
    /\ scanned <= clock
    /\ \A i \in DOMAIN sent : sent[i].row => \E d \in delivered : sent[i].day <= d

JobsInv ==
    /\ JobTypes /\ BooksOK /\ OneMessagePerDay /\ NoChangeForgotten
    /\ \A t \in Triggers : LockOK(t) /\ BriefOK(t)

\* Days follow the clock.
LEMMA DaysFollow ==
    ASSUME NEW x \in Nat, NEW y \in Nat, x <= y
    PROVE  DayOf(x) \in 0 .. x /\ DayOf(x) <= DayOf(y)
BY SchedulerAssumption DEF DayOf

\* The mutex lets one run of the briefing go on at a time.
LEMMA OneBriefRuns ==
    ASSUME JobsInv, OneBriefing, NEW t \in Triggers, NEW u \in Triggers,
           brief[t].pc # "none", brief[u].pc # "none"
    PROVE  t = u
<1>1. run[t] = "running" /\ run[u] = "running" /\ IsBriefing(t) /\ IsBriefing(u)
  BY DEF JobsInv, BriefOK
<1>2. JobOf[t] = JobOf[u]
  BY <1>1 DEF OneBriefing, IsBriefing
<1> QED BY <1>1, <1>2 DEF JobsInv, LockOK

\* The run under way moves on; the others are not there.
LEMMA BriefMoves ==
    ASSUME JobsInv, OneBriefing, NEW t \in Triggers, NEW r \in BriefRows,
           brief[t].pc # "none", brief' = [brief EXCEPT ![t] = r],
           \/ run' = run
           \/ \E how \in {"ok", "error", "panic"} : run' = [run EXCEPT ![t] = how],
           UNCHANGED <<runLock, jobEvents, clock, mtime>>,
           scanned' \in 0 .. MaxClock, delivered' \subseteq 0 .. MaxClock, sent' \in Seq(SentRows),
           BooksOK', OneMessagePerDay', NoChangeForgotten', BriefOK(t)'
    PROVE  JobsInv'
<1>1. run[t] = "running" /\ run \in [Triggers -> {"idle", "unknown", "queued", "running", "ok",
                             "error", "panic", "completed", "failed", "lost"}]
  BY DEF JobsInv, JobTypes, JobsTypeOK, BriefOK
<1>2. run' \in [Triggers -> {"idle", "unknown", "queued", "running", "ok",
                             "error", "panic", "completed", "failed", "lost"}]
  BY <1>1
<1>3. brief' \in [Triggers -> BriefRows] /\ \A u \in Triggers : u # t => brief'[u] = brief[u]
  BY DEF JobsInv, JobTypes
<1>4. \A u \in Triggers : brief'[u].prompt \subseteq Files \ SecretFiles
  BY <1>3 DEF BriefRows
<1>5. JobTypes'
  BY <1>2, <1>3, <1>4 DEF JobsInv, JobTypes, JobsTypeOK
<1>6. ASSUME NEW u \in Triggers PROVE LockOK(u)'
  <2>1. LockOK(u) /\ LockOK(t)
    BY DEF JobsInv
  <2>2. run'[u] = run[u] \/ (u = t /\ run'[u] \in {"ok", "error", "panic"})
    BY <1>1
  <2> QED BY <1>1, <2>1, <2>2 DEF LockOK
<1>7. ASSUME NEW u \in Triggers, u # t PROVE BriefOK(u)'
  <2>1. brief[u].pc = "none"
    BY <1>7, OneBriefRuns
  <2> QED BY <1>3, <1>7, <2>1 DEF BriefOK
<1> QED BY <1>5, <1>6, <1>7 DEF JobsInv

\* The run asks whether today's was delivered.
LEMMA DedupeKeeps ==
    ASSUME JobsInv, OneBriefing, NEW t \in Triggers, CheckDedupe(t) PROVE JobsInv'
<1>0. /\ brief[t] \in BriefRows /\ brief[t].pc = "dedupe" /\ run[t] = "running" /\ clock \in 1 .. MaxClock
      /\ NoBrief \in BriefRows /\ NoBrief.pc = "none" /\ MaxClock \in Nat
  BY SchedulerAssumption DEF CheckDedupe, BriefAt, JobsInv, JobTypes, JobsTypeOK, NoBrief, BriefRows
<1>1. UNCHANGED <<runLock, jobEvents, clock, mtime, scanned, delivered, sent, told>>
  BY DEF CheckDedupe
<1>2. BooksOK' /\ OneMessagePerDay' /\ NoChangeForgotten'
  BY <1>1 DEF JobsInv, BooksOK, OneMessagePerDay, NoChangeForgotten, DayOf
<1>3. /\ scanned' \in 0 .. MaxClock /\ delivered' \subseteq 0 .. MaxClock /\ sent' \in Seq(SentRows)
  BY <1>1 DEF JobsInv, JobTypes, JobsTypeOK
<1>4. CASE DayOf(clock) \in delivered
  <2>1. brief' = [brief EXCEPT ![t] = NoBrief] /\ run' = [run EXCEPT ![t] = "ok"]
    BY <1>4 DEF CheckDedupe, HandlerReturns
  <2>2. BriefOK(t)'
    BY <1>0, <2>1 DEF BriefOK, JobsInv, JobTypes
  <2> QED BY <1>0, <1>1, <1>2, <1>3, <2>1, <2>2, BriefMoves
<1>5. CASE DayOf(clock) \notin delivered
  <2>1. PICK r : r = [brief[t] EXCEPT !.pc = "collect", !.now = clock]
    OBVIOUS
  <2>2. r \in BriefRows /\ r.pc = "collect" /\ r.now = clock
    <3>1. clock \in 0 .. MaxClock
      BY <1>0
    <3> QED BY <1>0, <2>1, <3>1 DEF BriefRows
  <2>3. brief' = [brief EXCEPT ![t] = r] /\ brief'[t] = r /\ run' = run
    BY <1>5, <2>1 DEF CheckDedupe, JobsInv, JobTypes
  <2>4. DayOf(clock) \in Int /\ \A d \in delivered : d \in Int /\ d <= DayOf(clock)
    BY <1>0, DaysFollow DEF JobsInv, JobTypes, JobsTypeOK, BooksOK
  <2>5. \A d \in delivered : d < DayOf(clock)
    BY <1>5, <2>4
  <2>6. \A d \in delivered' : d < DayOf(r.now)'
    BY <1>1, <2>2, <2>5 DEF DayOf
  <2>7. IsBriefing(t) /\ IsBriefing(t)'
    BY <1>0 DEF JobsInv, BriefOK, IsBriefing, JobHandlers
  <2>8. BriefOK(t)'
    BY <1>0, <1>1, <2>2, <2>3, <2>6, <2>7 DEF BriefOK
  <2> QED BY <1>0, <1>1, <1>2, <1>3, <2>2, <2>3, <2>8, BriefMoves
<1> QED BY <1>4, <1>5

\* The run looks at the files.
LEMMA CollectKeeps ==
    ASSUME JobsInv, OneBriefing, NEW t \in Triggers, Collect(t) PROVE JobsInv'
<1>0. /\ brief[t] \in BriefRows /\ brief[t].pc = "collect" /\ run[t] = "running"
      /\ mtime \in [Files -> 0 .. MaxClock]
  BY DEF Collect, BriefAt, JobsInv, JobTypes, JobsTypeOK
<1>1. UNCHANGED <<run, runLock, jobEvents, clock, mtime, scanned, delivered, sent, told>>
  BY DEF Collect, schedVars
<1>2. BooksOK' /\ OneMessagePerDay' /\ NoChangeForgotten'
  BY <1>1 DEF JobsInv, BooksOK, OneMessagePerDay, NoChangeForgotten, DayOf
<1>3. /\ scanned' \in 0 .. MaxClock /\ delivered' \subseteq 0 .. MaxClock /\ sent' \in Seq(SentRows)
  BY <1>1 DEF JobsInv, JobTypes, JobsTypeOK
<1>4. PICK clean \in SUBSET {f \in CollectFiles : GateItem(f)} :
         brief' = [brief EXCEPT ![t].pc = "spawn", ![t].prompt = clean,
                                ![t].files = {<<f, mtime[f]>> : f \in CollectFiles}]
  BY DEF Collect
<1>5. PICK r : r = [brief[t] EXCEPT !.pc = "spawn", !.prompt = clean,
                                    !.files = {<<f, mtime[f]>> : f \in CollectFiles}]
  OBVIOUS
<1>6. /\ clean \subseteq Files \ SecretFiles
      /\ {<<f, mtime[f]>> : f \in CollectFiles} \subseteq Files \X (0 .. MaxClock)
  BY <1>0 DEF CollectFiles, GateItem
<1>7. /\ r \in BriefRows /\ r.pc = "spawn" /\ r.now = brief[t].now
      /\ r.files = {<<f, mtime[f]>> : f \in CollectFiles}
  BY <1>0, <1>5, <1>6 DEF BriefRows
<1>8. brief' = [brief EXCEPT ![t] = r] /\ brief'[t] = r
  BY <1>4, <1>5 DEF JobsInv, JobTypes
<1>9. \A f \in Files : mtime[f] > scanned => <<f, mtime[f]>> \in r.files
  BY <1>7 DEF CollectFiles
<1>10. /\ brief[t].now \in 1 .. clock /\ IsBriefing(t) /\ \A d \in delivered : d < DayOf(brief[t].now)
  BY <1>0 DEF JobsInv, BriefOK
<1>11. BriefOK(t)'
  BY <1>0, <1>1, <1>7, <1>8, <1>9, <1>10 DEF BriefOK, DayOf, IsBriefing, JobHandlers
<1> QED BY <1>0, <1>1, <1>2, <1>3, <1>7, <1>8, <1>11, BriefMoves

\* The run has its text, or ends without.
LEMMA SummariseKeeps ==
    ASSUME JobsInv, OneBriefing, NEW t \in Triggers, Summarise(t) PROVE JobsInv'
<1>0. /\ brief[t] \in BriefRows /\ brief[t].pc = "spawn" /\ run[t] = "running"
      /\ NoBrief \in BriefRows /\ NoBrief.pc = "none"
  BY SchedulerAssumption DEF Summarise, BriefAt, JobsInv, JobTypes, JobsTypeOK, NoBrief, BriefRows
<1>1. UNCHANGED <<runLock, jobEvents, clock, mtime, scanned, delivered, sent, told>>
  BY DEF Summarise
<1>2. BooksOK' /\ OneMessagePerDay' /\ NoChangeForgotten'
  BY <1>1 DEF JobsInv, BooksOK, OneMessagePerDay, NoChangeForgotten, DayOf
<1>3. /\ scanned' \in 0 .. MaxClock /\ delivered' \subseteq 0 .. MaxClock /\ sent' \in Seq(SentRows)
  BY <1>1 DEF JobsInv, JobTypes, JobsTypeOK
<1>4. CASE brief' = [brief EXCEPT ![t] = NoBrief] /\ \E how \in {"error", "panic"} : HandlerReturns(t, how)
  <2>1. BriefOK(t)'
    BY <1>0, <1>4 DEF BriefOK, JobsInv, JobTypes
  <2>2. \E how \in {"ok", "error", "panic"} : run' = [run EXCEPT ![t] = how]
    BY <1>4 DEF HandlerReturns
  <2> QED BY <1>0, <1>1, <1>2, <1>3, <1>4, <2>1, <2>2, BriefMoves
<1>5. CASE brief' = [brief EXCEPT ![t].pc = "deliver"] /\ UNCHANGED run
  <2>1. PICK r : r = [brief[t] EXCEPT !.pc = "deliver"]
    OBVIOUS
  <2>2. r \in BriefRows /\ r.pc = "deliver" /\ r.now = brief[t].now /\ r.files = brief[t].files
    BY <1>0, <2>1 DEF BriefRows
  <2>3. brief' = [brief EXCEPT ![t] = r] /\ brief'[t] = r
    BY <1>5, <2>1 DEF JobsInv, JobTypes
  <2>4. BriefOK(t)
    BY DEF JobsInv
  <2>5. BriefOK(t)'
    BY <1>0, <1>1, <1>5, <2>2, <2>3, <2>4 DEF BriefOK, DayOf, IsBriefing, JobHandlers
  <2> QED BY <1>0, <1>1, <1>2, <1>3, <1>5, <2>2, <2>3, <2>5, BriefMoves
<1> QED BY <1>4, <1>5 DEF Summarise

\* The message goes out: the first of its day with a row.
LEMMA DeliverKeeps ==
    ASSUME JobsInv, OneBriefing, NEW t \in Triggers, Deliver(t) PROVE JobsInv'
<1>0. /\ brief[t] \in BriefRows /\ brief[t].pc = "deliver" /\ run[t] = "running"
      /\ NoBrief \in BriefRows /\ NoBrief.pc = "none" /\ sent \in Seq(SentRows)
      /\ clock \in 1 .. MaxClock /\ MaxClock \in Nat
  BY SchedulerAssumption DEF Deliver, BriefAt, JobsInv, JobTypes, JobsTypeOK, NoBrief, BriefRows
<1>1. UNCHANGED <<runLock, jobEvents, clock, mtime, scanned, delivered>>
  BY DEF Deliver
<1>2. scanned' \in 0 .. MaxClock /\ delivered' \subseteq 0 .. MaxClock
  BY <1>1 DEF JobsInv, JobTypes, JobsTypeOK
<1>3. BriefOK(t)
  BY DEF JobsInv
<1>4. CASE brief' = [brief EXCEPT ![t] = NoBrief] /\ HandlerReturns(t, "error") /\ UNCHANGED <<sent, told>>
  <2>1. BooksOK' /\ OneMessagePerDay' /\ NoChangeForgotten' /\ sent' \in Seq(SentRows)
    BY <1>0, <1>1, <1>4 DEF JobsInv, BooksOK, OneMessagePerDay, NoChangeForgotten, DayOf
  <2>2. BriefOK(t)'
    BY <1>0, <1>4 DEF BriefOK, JobsInv, JobTypes
  <2>3. \E how \in {"ok", "error", "panic"} : run' = [run EXCEPT ![t] = how]
    BY <1>4 DEF HandlerReturns
  <2> QED BY <1>0, <1>1, <1>2, <1>4, <2>1, <2>2, <2>3, BriefMoves
<1>5. CASE /\ sent' = Append(sent, [day |-> DayOf(brief[t].now), lines |-> brief[t].prompt, row |-> FALSE])
           /\ told' = told \cup brief[t].files
           /\ brief' = [brief EXCEPT ![t].pc = "ledger"]
           /\ UNCHANGED run
  <2>1. PICK r : r = [brief[t] EXCEPT !.pc = "ledger"]
    OBVIOUS
  <2>2. r \in BriefRows /\ r.pc = "ledger" /\ r.now = brief[t].now
    BY <1>0, <2>1 DEF BriefRows
  <2>3. brief' = [brief EXCEPT ![t] = r] /\ brief'[t] = r
    BY <1>5, <2>1 DEF JobsInv, JobTypes
  <2>4. PICK m : m = [day |-> DayOf(brief[t].now), lines |-> brief[t].prompt, row |-> FALSE]
    OBVIOUS
  <2>5. brief[t].now \in 1 .. clock /\ \A d \in delivered : d < DayOf(brief[t].now)
    BY <1>0, <1>3 DEF BriefOK
  <2>6. DayOf(brief[t].now) \in 0 .. MaxClock
    <3>1. /\ brief[t].now \in Nat /\ clock \in Nat /\ brief[t].now <= clock /\ clock <= MaxClock
      BY <1>0, <2>5
    <3>2. DayOf(brief[t].now) \in 0 .. brief[t].now
      BY <3>1, DaysFollow
    <3> QED BY <1>0, <3>1, <3>2
  <2>7. m \in SentRows /\ m.day = DayOf(brief[t].now) /\ ~m.row
    BY <1>0, <2>4, <2>6 DEF SentRows, BriefRows
  <2>8. /\ sent' = Append(sent, m) /\ sent' \in Seq(SentRows) /\ Len(sent') = Len(sent) + 1
        /\ sent'[Len(sent')] = m /\ \A i \in 1 .. Len(sent) : sent'[i] = sent[i]
    BY <1>0, <1>5, <2>4, <2>7
  <2>9. \A i \in DOMAIN sent : sent[i].row => \E d \in delivered : sent[i].day <= d
    BY DEF JobsInv, BooksOK
  <2>10. BooksOK'
    <3>1. ASSUME NEW i \in DOMAIN sent', sent'[i].row PROVE \E d \in delivered' : sent'[i].day <= d
      <4>1. i \in DOMAIN sent /\ sent'[i] = sent[i]
        BY <1>0, <2>7, <2>8, <3>1
      <4> QED BY <1>1, <2>9, <3>1, <4>1
    <3> QED BY <1>1, <3>1 DEF JobsInv, BooksOK, DayOf
  <2>11. OneMessagePerDay'
    <3>1. SUFFICES ASSUME NEW i \in DOMAIN sent', NEW k \in DOMAIN sent', i < k,
                          sent'[i].day = sent'[k].day, sent'[i].row
                   PROVE  FALSE
      BY DEF OneMessagePerDay
    <3>2. i \in DOMAIN sent /\ sent'[i] = sent[i]
      BY <1>0, <2>8, <3>1
    <3>3. CASE k \in DOMAIN sent
      BY <1>0, <2>8, <3>1, <3>2, <3>3 DEF JobsInv, OneMessagePerDay
    <3>4. CASE k \notin DOMAIN sent
      <4>1. sent'[k] = m
        BY <1>0, <2>8, <3>4
      <4>2. PICK d \in delivered : sent[i].day <= d
        BY <2>9, <3>1, <3>2
      <4>3. d \in Int /\ sent[i].day \in Int
        <5>1. sent[i] \in SentRows /\ delivered \subseteq 0 .. MaxClock
          BY <1>0, <3>2 DEF JobsInv, JobTypes, JobsTypeOK
        <5> QED BY <1>0, <4>2, <5>1 DEF SentRows
      <4> QED BY <2>5, <2>6, <2>7, <3>1, <3>2, <4>1, <4>2, <4>3
    <3> QED BY <3>3, <3>4
  <2>12. NoChangeForgotten'
    BY <1>1, <1>5 DEF JobsInv, NoChangeForgotten
  <2>13. \A f \in Files : mtime[f] <= brief[t].now => mtime[f] = 0 \/ <<f, mtime[f]>> \in told'
    BY <1>0, <1>3, <1>5 DEF BriefOK, JobsInv, NoChangeForgotten
  <2>14. BriefOK(t)'
    BY <1>0, <1>1, <1>3, <1>5, <2>2, <2>3, <2>5, <2>7, <2>8, <2>13
    DEF BriefOK, DayOf, IsBriefing, JobHandlers
  <2> QED BY <1>0, <1>1, <1>2, <1>5, <2>2, <2>3, <2>8, <2>10, <2>11, <2>12, <2>14, BriefMoves
<1> QED BY <1>4, <1>5 DEF Deliver

\* The row of the message just sent, dated when it is written.
LEMMA RowKeeps ==
    ASSUME JobsInv, OneBriefing, NEW t \in Triggers, LedgerDelivered(t) PROVE JobsInv'
<1>0. /\ brief[t] \in BriefRows /\ brief[t].pc = "ledger" /\ run[t] = "running"
      /\ sent \in Seq(SentRows) /\ clock \in 1 .. MaxClock /\ MaxClock \in Nat
      /\ delivered \subseteq 0 .. MaxClock
  BY SchedulerAssumption DEF LedgerDelivered, BriefAt, JobsInv, JobTypes, JobsTypeOK
<1>1. UNCHANGED <<run, runLock, jobEvents, clock, mtime, scanned, told>>
  BY DEF LedgerDelivered, schedVars
<1>2. BriefOK(t)
  BY DEF JobsInv
<1>3. PICK r : r = [brief[t] EXCEPT !.pc = "save"]
  OBVIOUS
<1>4. r \in BriefRows /\ r.pc = "save" /\ r.now = brief[t].now
  BY <1>0, <1>3 DEF BriefRows
<1>5. brief' = [brief EXCEPT ![t] = r] /\ brief'[t] = r
  BY <1>3 DEF LedgerDelivered, JobsInv, JobTypes
<1>6. BriefOK(t)'
  BY <1>0, <1>1, <1>2, <1>4, <1>5 DEF BriefOK, DayOf, IsBriefing, JobHandlers
<1>7. NoChangeForgotten' /\ scanned' \in 0 .. MaxClock
  BY <1>1 DEF JobsInv, NoChangeForgotten, JobTypes, JobsTypeOK
<1>8. CASE UNCHANGED <<delivered, sent>>
  <2>1. BooksOK' /\ OneMessagePerDay'
    BY <1>1, <1>8 DEF JobsInv, BooksOK, OneMessagePerDay, DayOf
  <2> QED BY <1>0, <1>1, <1>4, <1>5, <1>6, <1>7, <1>8, <2>1, BriefMoves
<1>9. CASE /\ delivered' = delivered \cup {DayOf(clock)}
           /\ sent' = [sent EXCEPT ![Len(sent)].row = TRUE]
  <2>1. sent # <<>> /\ sent[Len(sent)].day = DayOf(brief[t].now) /\ brief[t].now \in 1 .. clock
    BY <1>0, <1>2 DEF BriefOK
  <2>2. /\ brief[t].now \in Nat /\ clock \in Nat /\ brief[t].now <= clock /\ clock <= MaxClock
    BY <1>0, <2>1
  <2>3. DayOf(clock) \in 0 .. clock /\ DayOf(brief[t].now) <= DayOf(clock)
    BY <2>2, DaysFollow
  <2>4. DayOf(clock) \in 0 .. MaxClock
    BY <1>0, <2>2, <2>3
  <2>5. Len(sent) \in DOMAIN sent /\ sent[Len(sent)] \in SentRows
    BY <1>0, <2>1
  <2>6. PICK m : m = [sent[Len(sent)] EXCEPT !.row = TRUE]
    OBVIOUS
  <2>7. m \in SentRows /\ m.day = DayOf(brief[t].now) /\ sent' = [sent EXCEPT ![Len(sent)] = m]
    BY <1>9, <2>1, <2>5, <2>6 DEF SentRows
  <2>8. /\ sent' \in Seq(SentRows) /\ DOMAIN sent' = DOMAIN sent
        /\ sent'[Len(sent)] = m /\ \A i \in DOMAIN sent : i # Len(sent) => sent'[i] = sent[i]
    BY <1>0, <2>5, <2>7
  <2>9. \A i \in DOMAIN sent : sent'[i].day = sent[i].day
    BY <2>1, <2>7, <2>8
  <2>10. BooksOK'
    <3>1. ASSUME NEW i \in DOMAIN sent', sent'[i].row PROVE \E d \in delivered' : sent'[i].day <= d
      <4>1. CASE i = Len(sent)
        BY <1>9, <2>3, <2>7, <2>8, <4>1
      <4>2. CASE i # Len(sent)
        BY <1>9, <2>8, <3>1, <4>2 DEF JobsInv, BooksOK
      <4> QED BY <4>1, <4>2
    <3>2. DayOf(clock) <= DayOf(clock)
      BY <2>4, <1>0
    <3>3. \A d \in delivered' : d <= DayOf(clock)'
      BY <1>1, <1>9, <3>2 DEF JobsInv, BooksOK, DayOf
    <3> QED BY <1>1, <3>1, <3>3 DEF JobsInv, BooksOK
  <2>11. OneMessagePerDay'
    <3>1. SUFFICES ASSUME NEW i \in DOMAIN sent', NEW k \in DOMAIN sent', i < k,
                          sent'[i].day = sent'[k].day
                   PROVE  ~sent'[i].row
      BY DEF OneMessagePerDay
    <3>2. i # Len(sent)
      BY <1>0, <2>8, <3>1
    <3> QED BY <2>8, <2>9, <3>1, <3>2 DEF JobsInv, OneMessagePerDay
  <2>12. delivered' \subseteq 0 .. MaxClock
    BY <1>0, <1>9, <2>4
  <2> QED BY <1>0, <1>1, <1>4, <1>5, <1>6, <1>7, <2>8, <2>10, <2>11, <2>12, BriefMoves
<1> QED BY <1>8, <1>9 DEF LedgerDelivered

\* The scan time moves to where the run began.
LEMMA SaveKeeps ==
    ASSUME JobsInv, OneBriefing, NEW t \in Triggers, SaveScan(t) PROVE JobsInv'
<1>0. /\ brief[t] \in BriefRows /\ brief[t].pc = "save" /\ run[t] = "running"
      /\ NoBrief \in BriefRows /\ NoBrief.pc = "none"
      /\ clock \in 1 .. MaxClock /\ MaxClock \in Nat /\ scanned \in 0 .. MaxClock
      /\ mtime \in [Files -> 0 .. MaxClock]
  BY SchedulerAssumption DEF SaveScan, BriefAt, JobsInv, JobTypes, JobsTypeOK, NoBrief, BriefRows
<1>1. /\ UNCHANGED <<runLock, jobEvents, clock, mtime, delivered, sent, told>>
      /\ brief' = [brief EXCEPT ![t] = NoBrief] /\ run' = [run EXCEPT ![t] = "ok"]
      /\ scanned' \in {scanned, brief[t].now}
  BY DEF SaveScan, HandlerReturns, SavedTime
<1>2. /\ brief[t].now \in 1 .. clock
      /\ \A f \in Files : mtime[f] <= brief[t].now => mtime[f] = 0 \/ <<f, mtime[f]>> \in told
  BY <1>0 DEF JobsInv, BriefOK
<1>3. brief[t].now \in 0 .. MaxClock /\ brief[t].now <= clock
  BY <1>0, <1>2
<1>4. NoChangeForgotten'
  <2>1. ASSUME NEW f \in Files
        PROVE  mtime[f] = 0 \/ <<f, mtime[f]>> \in told \/ mtime[f] > scanned'
    <3>1. mtime[f] \in 0 .. MaxClock
      BY <1>0
    <3>2. CASE mtime[f] <= brief[t].now
      BY <1>2, <3>2
    <3>3. CASE mtime[f] > brief[t].now
      BY <1>1, <3>3 DEF JobsInv, NoChangeForgotten
    <3> QED BY <1>0, <1>3, <3>1, <3>2, <3>3
  <2> QED BY <1>1, <2>1 DEF NoChangeForgotten
<1>5. BooksOK' /\ OneMessagePerDay'
  BY <1>1, <1>3 DEF JobsInv, BooksOK, OneMessagePerDay, DayOf
<1>6. scanned' \in 0 .. MaxClock /\ delivered' \subseteq 0 .. MaxClock /\ sent' \in Seq(SentRows)
  BY <1>0, <1>1, <1>3 DEF JobsInv, JobTypes, JobsTypeOK
<1>7. BriefOK(t)'
  BY <1>0, <1>1 DEF BriefOK, JobsInv, JobTypes
<1> QED BY <1>0, <1>1, <1>4, <1>5, <1>6, <1>7, BriefMoves

\* A trigger is taken, its turn comes, another handler ends, the result is
\* ledgered.
LEMMA TurnKeeps ==
    ASSUME JobsInv, NEW t \in Triggers,
           Trigger(t) \/ StartHandler(t) \/ OtherHandler(t) \/ LedgerResult(t)
    PROVE  JobsInv'
<1>0. /\ run \in [Triggers -> {"idle", "unknown", "queued", "running", "ok",
                             "error", "panic", "completed", "failed", "lost"}]
      /\ runLock \in [JobHandlers -> Triggers \cup {NoTrigger}]
      /\ jobEvents \in [Triggers -> SUBSET {"triggered", "completed", "failed"}]
      /\ brief \in [Triggers -> BriefRows] /\ NoTrigger \notin Triggers
  BY SchedulerAssumption DEF JobsInv, JobTypes, JobsTypeOK, NoTrigger
<1>1. UNCHANGED <<clock, mtime, scanned, delivered, sent, told>>
  BY DEF Trigger, StartHandler, OtherHandler, LedgerResult, briefVars
<1>2. BooksOK' /\ OneMessagePerDay' /\ NoChangeForgotten'
  BY <1>1 DEF JobsInv, BooksOK, OneMessagePerDay, NoChangeForgotten, DayOf
<1>3. LockOK(t) /\ BriefOK(t)
  BY DEF JobsInv
<1>4. /\ run' \in [Triggers -> {"idle", "unknown", "queued", "running", "ok",
                             "error", "panic", "completed", "failed", "lost"}]
      /\ \A u \in Triggers : u # t => run'[u] = run[u]
      /\ run'[t] = "queued" => JobOf[t] \in JobHandlers
  <2>1. CASE Trigger(t)
    BY <1>0, <2>1 DEF Trigger
  <2>2. CASE StartHandler(t)
    BY <1>0, <2>2 DEF StartHandler
  <2>3. CASE OtherHandler(t)
    BY <1>0, <2>3 DEF OtherHandler, HandlerReturns
  <2>4. CASE LedgerResult(t)
    BY <1>0, <2>4 DEF LedgerResult
  <2> QED BY <2>1, <2>2, <2>3, <2>4
<1>5. jobEvents' \in [Triggers -> SUBSET {"triggered", "completed", "failed"}]
  BY <1>0 DEF Trigger, StartHandler, OtherHandler, LedgerResult
<1>6. /\ runLock' \in [JobHandlers -> Triggers \cup {NoTrigger}]
      /\ \A u \in Triggers : LockOK(u)'
  <2>1. CASE Trigger(t) \/ OtherHandler(t)
    <3>1. UNCHANGED runLock
      BY <2>1 DEF Trigger, OtherHandler
    <3>2. /\ run'[t] \in {"unknown", "queued", "ok", "error", "panic"}
          /\ run'[t] \in {"ok", "error", "panic"} => run[t] = "running"
      BY <1>0, <2>1 DEF Trigger, OtherHandler, HandlerReturns
    <3>3. ASSUME NEW u \in Triggers PROVE LockOK(u)'
      <4>1. LockOK(u)
        BY DEF JobsInv
      <4> QED BY <1>3, <1>4, <3>1, <3>2, <4>1 DEF LockOK, JobHandlers
    <3> QED BY <1>0, <3>1, <3>3
  <2>2. CASE StartHandler(t)
    <3>1. /\ JobOf[t] \in JobHandlers /\ runLock[JobOf[t]] = NoTrigger
          /\ runLock' = [runLock EXCEPT ![JobOf[t]] = t] /\ run'[t] = "running"
      BY <1>0, <1>3, <2>2 DEF StartHandler, LockFree, LockOK
    <3>2. ASSUME NEW u \in Triggers PROVE LockOK(u)'
      <4>1. LockOK(u)
        BY DEF JobsInv
      <4> QED BY <1>0, <1>4, <3>1, <4>1 DEF LockOK, JobHandlers
    <3> QED BY <1>0, <3>1, <3>2
  <2>3. CASE LedgerResult(t)
    <3>1. /\ JobOf[t] \in JobHandlers /\ runLock[JobOf[t]] = t
          /\ runLock' = [runLock EXCEPT ![JobOf[t]] = NoTrigger] /\ run'[t] \in {"completed", "failed"}
      BY <1>0, <1>3, <2>3 DEF LedgerResult, Unlocked, LockOK
    <3>2. ASSUME NEW u \in Triggers PROVE LockOK(u)'
      <4>1. LockOK(u)
        BY DEF JobsInv
      <4> QED BY <1>0, <1>4, <3>1, <4>1 DEF LockOK, JobHandlers
    <3> QED BY <1>0, <3>1, <3>2
  <2> QED BY <2>1, <2>2, <2>3
<1>7. /\ brief' \in [Triggers -> BriefRows]
      /\ \A u \in Triggers : u # t => brief'[u] = brief[u]
      /\ brief'[t].prompt = brief[t].prompt
      /\ \/ brief'[t].pc = "none"
         \/ brief'[t].pc = "dedupe" /\ run'[t] = "running" /\ IsBriefing(t)
  <2>1. CASE StartHandler(t)
    <3>1. CASE IsBriefing(t)
      <4>1. PICK r : r = [brief[t] EXCEPT !.pc = "dedupe"]
        OBVIOUS
      <4>2. r \in BriefRows /\ r.pc = "dedupe" /\ r.prompt = brief[t].prompt
        BY <1>0, <4>1 DEF BriefRows
      <4>3. brief' = [brief EXCEPT ![t] = r] /\ run'[t] = "running"
        BY <1>0, <2>1, <3>1, <4>1 DEF StartHandler
      <4> QED BY <1>0, <3>1, <4>2, <4>3
    <3>2. CASE ~IsBriefing(t)
      BY <1>0, <1>3, <2>1, <3>2 DEF StartHandler, BriefOK
    <3> QED BY <3>1, <3>2
  <2>2. CASE Trigger(t) \/ OtherHandler(t) \/ LedgerResult(t)
    <3>1. UNCHANGED brief
      BY <2>2 DEF Trigger, OtherHandler, LedgerResult, briefVars
    <3>2. run[t] # "running" \/ ~IsBriefing(t)
      BY <2>2 DEF Trigger, OtherHandler, LedgerResult
    <3> QED BY <1>0, <1>3, <3>1, <3>2 DEF BriefOK
  <2> QED BY <2>1, <2>2
<1>8. ASSUME NEW u \in Triggers PROVE BriefOK(u)'
  <2>1. BriefOK(u)
    BY DEF JobsInv
  <2>2. CASE u = t
    BY <1>7, <2>2 DEF BriefOK, IsBriefing, JobHandlers
  <2>3. CASE u # t
    BY <1>1, <1>4, <1>7, <2>1, <2>3 DEF BriefOK, IsBriefing, JobHandlers, DayOf
  <2> QED BY <2>2, <2>3
<1>9. JobTypes'
  BY <1>1, <1>4, <1>5, <1>6, <1>7 DEF JobsInv, JobTypes, JobsTypeOK
<1> QED BY <1>2, <1>6, <1>8, <1>9 DEF JobsInv

\* The daemon dies: nothing is under way any more.
LEMMA CrashKeeps == ASSUME JobsInv, DaemonCrash PROVE JobsInv'
<1>1. UNCHANGED <<jobEvents, clock, mtime, scanned, delivered, sent, told>>
  BY DEF DaemonCrash
<1>2. NoBrief \in BriefRows /\ NoBrief.pc = "none" /\ NoBrief.prompt = {}
  BY SchedulerAssumption DEF NoBrief, BriefRows
<1>3. /\ brief' \in [Triggers -> BriefRows] /\ \A t \in Triggers : brief'[t] = NoBrief
      /\ runLock' \in [JobHandlers -> Triggers \cup {NoTrigger}]
  BY <1>2 DEF DaemonCrash
<1>4. /\ run' \in [Triggers -> {"idle", "unknown", "queued", "running", "ok",
                             "error", "panic", "completed", "failed", "lost"}]
      /\ \A t \in Triggers : run'[t] \in {"idle", "unknown", "completed", "failed", "lost"}
  <2>1. run \in [Triggers -> {"idle", "unknown", "queued", "running", "ok",
                             "error", "panic", "completed", "failed", "lost"}]
    BY DEF JobsInv, JobTypes, JobsTypeOK
  <2> QED BY <2>1 DEF DaemonCrash
<1>5. JobTypes'
  BY <1>1, <1>2, <1>3, <1>4 DEF JobsInv, JobTypes, JobsTypeOK
<1>6. BooksOK' /\ OneMessagePerDay' /\ NoChangeForgotten'
  BY <1>1 DEF JobsInv, BooksOK, OneMessagePerDay, NoChangeForgotten, DayOf
<1>7. \A t \in Triggers : LockOK(t)' /\ BriefOK(t)'
  BY <1>2, <1>3, <1>4 DEF LockOK, BriefOK
<1> QED BY <1>5, <1>6, <1>7 DEF JobsInv

\* Time passes, and a file changes ahead of all that was looked at.
LEMMA TickKeeps == ASSUME JobsInv, Tick PROVE JobsInv'
<1>0. /\ clock \in 1 .. MaxClock /\ MaxClock \in Nat /\ clock' = clock + 1 /\ clock < MaxClock
      /\ mtime \in [Files -> 0 .. MaxClock] /\ scanned \in 0 .. MaxClock
      /\ delivered \subseteq 0 .. MaxClock /\ brief \in [Triggers -> BriefRows]
  BY SchedulerAssumption DEF Tick, JobsInv, JobTypes, JobsTypeOK
<1>1. UNCHANGED <<run, runLock, jobEvents, scanned, delivered, sent, told, brief>>
  BY DEF Tick, schedVars
<1>2. /\ clock \in Nat /\ clock + 1 \in Nat /\ clock <= clock + 1 /\ clock + 1 \in 1 .. MaxClock
      /\ clock + 1 \in 0 .. MaxClock
  BY <1>0
<1>3. DayOf(clock) <= DayOf(clock + 1) /\ DayOf(clock) \in Int /\ DayOf(clock + 1) \in Int
  BY <1>2, DaysFollow
<1>4. /\ mtime' \in [Files -> 0 .. MaxClock]
      /\ \A f \in Files : mtime'[f] = mtime[f] \/ mtime'[f] = clock + 1
  BY <1>0, <1>2 DEF Tick
<1>5. JobTypes'
  BY <1>0, <1>1, <1>2, <1>4 DEF JobsInv, JobTypes, JobsTypeOK
<1>6. BooksOK'
  <2>1. \A d \in delivered : d \in Int /\ d <= DayOf(clock)
    <3>1. \A d \in delivered : d <= DayOf(clock)
      BY DEF JobsInv, BooksOK
    <3>2. \A d \in delivered : d \in Int
      BY <1>0
    <3> QED BY <3>1, <3>2
  <2>2. \A d \in delivered : d <= DayOf(clock + 1)
    BY <1>3, <2>1
  <2>3. ASSUME NEW f \in Files PROVE mtime'[f] <= clock + 1
    <3>1. mtime[f] \in 0 .. MaxClock /\ mtime[f] <= clock
      BY <1>0 DEF JobsInv, BooksOK
    <3>2. CASE mtime'[f] = mtime[f]
      BY <1>0, <3>1, <3>2
    <3>3. CASE mtime'[f] = clock + 1
      BY <1>2, <3>3
    <3> QED BY <1>4, <3>2, <3>3
  <2>4. scanned <= clock + 1
    <3>1. scanned <= clock
      BY DEF JobsInv, BooksOK
    <3> QED BY <1>0, <3>1
  <2> QED BY <1>0, <1>1, <2>2, <2>3, <2>4 DEF JobsInv, BooksOK, DayOf
<1>7. OneMessagePerDay'
  BY <1>1 DEF JobsInv, OneMessagePerDay
<1>8. NoChangeForgotten'
  <2>1. scanned <= clock
    BY DEF JobsInv, BooksOK
  <2> QED BY <1>0, <1>1, <1>4, <2>1 DEF JobsInv, NoChangeForgotten
<1>9. ASSUME NEW t \in Triggers PROVE LockOK(t)' /\ BriefOK(t)'
  <2>1. LockOK(t) /\ BriefOK(t)
    BY DEF JobsInv
  <2>2. LockOK(t)'
    BY <1>1, <2>1 DEF LockOK
  <2>0. brief'[t] = brief[t] /\ run'[t] = run[t]
    BY <1>1
  <2>3. CASE brief[t].pc \in {"none", "dedupe"}
    <3>1. brief[t].pc = "dedupe" => run[t] = "running" /\ IsBriefing(t)
      BY <2>1 DEF BriefOK
    <3> QED BY <2>0, <2>2, <2>3, <3>1 DEF BriefOK, IsBriefing, JobHandlers
  <2>4. CASE brief[t].pc \notin {"none", "dedupe"}
    <3>1. brief[t].now \in 1 .. clock
      BY <2>1, <2>4 DEF BriefOK
    <3>2. brief[t].now \in 1 .. clock'
      BY <1>0, <3>1
    <3>3. \A f \in Files : mtime'[f] <= brief[t].now => mtime'[f] = mtime[f]
      BY <1>0, <1>4, <3>1
    <3>4. /\ brief'[t].pc \in {"collect", "spawn", "deliver"} =>
                \A d \in delivered' : d < DayOf(brief'[t].now)
          /\ brief'[t].pc = "ledger" => sent' # <<>> /\ sent'[Len(sent')].day = DayOf(brief'[t].now)
      BY <1>1, <2>0, <2>1 DEF BriefOK
    <3>5. /\ brief'[t].pc \in {"spawn", "deliver"} =>
                \A f \in Files : mtime'[f] <= brief'[t].now /\ mtime'[f] > scanned'
                    => <<f, mtime'[f]>> \in brief'[t].files
          /\ brief'[t].pc \in {"ledger", "save"} =>
                \A f \in Files : mtime'[f] <= brief'[t].now
                    => mtime'[f] = 0 \/ <<f, mtime'[f]>> \in told'
      BY <1>1, <2>0, <2>1, <3>3 DEF BriefOK
    <3>6. brief[t].pc # "none" => run[t] = "running" /\ IsBriefing(t)
      BY <2>1 DEF BriefOK
    <3> QED BY <2>0, <2>2, <3>2, <3>4, <3>5, <3>6 DEF BriefOK, DayOf, IsBriefing, JobHandlers
  <2> QED BY <2>2, <2>3, <2>4
<1> QED BY <1>5, <1>6, <1>7, <1>8, <1>9 DEF JobsInv

\* Nothing is triggered, sent or changed at the start.
LEMMA InitJobs == JobsInit => JobsInv
<1> SUFFICES ASSUME JobsInit PROVE JobsInv
  OBVIOUS
<1>1. NoBrief \in BriefRows /\ NoBrief.pc = "none" /\ NoBrief.prompt = {}
  BY SchedulerAssumption DEF NoBrief, BriefRows
<1>2. MaxClock \in Nat \ {0} /\ 0 \in 0 .. MaxClock /\ 1 \in 1 .. MaxClock
  BY SchedulerAssumption
<1>3. JobTypes
  BY <1>1, <1>2 DEF JobsInit, JobTypes, JobsTypeOK
<1>4. BooksOK /\ OneMessagePerDay /\ NoChangeForgotten
  BY <1>2 DEF JobsInit, BooksOK, OneMessagePerDay, NoChangeForgotten
<1>5. \A t \in Triggers : LockOK(t) /\ BriefOK(t)
  BY <1>1 DEF JobsInit, LockOK, BriefOK
<1> QED BY <1>3, <1>4, <1>5 DEF JobsInv

\* For any number of jobs, triggers, files, days and crashes, as long as one
\* job runs the briefing: two messages for one day only when the row of the
\* first was lost, and a changed file is in a message or still ahead of the
\* scan time.
THEOREM BriefingsStayKept == OneBriefing => (JobsSafety => [](JobsTypeOK /\ BriefingsAreKept))
<1> SUFFICES ASSUME OneBriefing PROVE JobsSafety => [](JobsTypeOK /\ BriefingsAreKept)
  OBVIOUS
<1>1. JobsInv /\ [JobsNext]_jobVars => JobsInv'
  <2> SUFFICES ASSUME JobsInv, [JobsNext]_jobVars PROVE JobsInv'
    OBVIOUS
  <2>1. ASSUME NEW t \in Triggers, JobStep(t) PROVE JobsInv'
    BY <2>1, TurnKeeps, DedupeKeeps, CollectKeeps, SummariseKeeps, DeliverKeeps, RowKeeps, SaveKeeps
    DEF JobStep, HandlerStep
  <2>2. CASE UNCHANGED jobVars
    BY <2>2 DEF jobVars, schedVars, briefVars, JobsInv, JobTypes, JobsTypeOK, BooksOK,
       OneMessagePerDay, NoChangeForgotten, LockOK, BriefOK, DayOf, IsBriefing, JobHandlers
  <2> QED BY <2>1, <2>2, TurnKeeps, CrashKeeps, TickKeeps DEF JobsNext
<1>2. JobsInv => JobsTypeOK /\ BriefingsAreKept
  BY DEF JobsInv, JobTypes, BriefingsAreKept
<1> QED BY <1>1, <1>2, InitJobs, PTL DEF JobsSafety

-----------------------------------------------------------------------------
(* The ledger's digest and its external anchor.                            *)

AnchorSafety == AnchorInit /\ [][AnchorNext]_anchorVars

\* What the daemon writes, and what a rewrite leaves.
Clean == {"logged", "anchored", "stale", "mismatch"}
Payloads == Clean \cup {"rewritten"}

AnchorRows == [event : Nat, digest : Seq(Clean), status : {"pending", "pushed"}]
AnchorLines == Nat \X Seq(Clean)
Lines(log) == {log[k] : k \in DOMAIN log}

\* A checkpoint is as long as what it was taken of, and is its prefix while
\* nothing was rewritten.
CheckpointOK(row) ==
    /\ row.event = Len(row.digest) /\ row.event \in 1 .. Len(events)
    /\ rewritten = 0 => row.digest = SubSeq(events, 1, row.event)

\* The stored digest follows the ledger and never takes over a rewritten row.
LedgerInv ==
    /\ events \in Seq(Payloads) /\ digestRow \in [last : Nat, digest : Seq(Clean)]
    /\ anchorLog \in Seq(AnchorRows)
    /\ digestRow.last = Len(events) /\ Len(digestRow.digest) = Len(events)
    /\ rewritten \in Nat
    /\ rewritten # 0 => rewritten \in 1 .. Len(events) /\ events[rewritten] = "rewritten"
    /\ rewritten = 0 => digestRow.digest = events
    /\ \A i \in DOMAIN anchorLog : CheckpointOK(anchorLog[i])

\* What is at the remote is committed, and what is committed is in the tree;
\* the line of the row being pushed has come as far as its push.
RepoInv ==
    /\ tree \in Seq(AnchorLines) /\ commits \in Seq(AnchorLines) /\ remote \in Seq(AnchorLines)
    /\ Lines(commits) \subseteq Lines(tree) /\ Lines(remote) \subseteq Lines(commits)
    /\ pushAt \in {"idle", "clone", "append", "commit", "push", "mark"}
    /\ pushAt # "idle" => pushLine \in DOMAIN anchorLog
    /\ pushAt = "commit" => LineOf(anchorLog[pushLine]) \in Lines(tree)
    /\ pushAt = "push" => LineOf(anchorLog[pushLine]) \in Lines(commits)
    /\ pushAt = "mark" => LineOf(anchorLog[pushLine]) \in Lines(remote)
    /\ \A i \in DOMAIN anchorLog :
          anchorLog[i].status = "pushed" => LineOf(anchorLog[i]) \in Lines(remote)

\* A verify that read a rewritten event under a checkpoint has that checkpoint
\* to fail on.
Caught == \E i \in DOMAIN anchorLog : \E r \in 1 .. anchorLog[i].event :
    anchorLog[i].event <= Len(verified.events) /\ verified.events[r] = "rewritten"

VerifyInv ==
    /\ verified \in [events : Seq(Payloads), dirty : BOOLEAN]
    /\ verifyAt = "rows" /\ verified.dirty => Caught
    /\ verifyAt = "remote" => ~verified.dirty

AnchorInv == LedgerInv /\ RepoInv /\ VerifyInv

\* The checkpoints stay what they are, whatever becomes of their status.
SameCheckpoints ==
    /\ anchorLog' \in Seq(AnchorRows) /\ DOMAIN anchorLog' = DOMAIN anchorLog
    /\ \A i \in DOMAIN anchorLog :
          anchorLog'[i].event = anchorLog[i].event /\ anchorLog'[i].digest = anchorLog[i].digest

\* A row is ledgered with its digest, or none is.
LEMMA LedgerGrows ==
    ASSUME LedgerInv, SameCheckpoints, rewritten' = rewritten,
           \/ UNCHANGED <<events, digestRow>>
           \/ \E payload \in Clean : InsertEventWithDigest(payload)
    PROVE  LedgerInv'
<1>1. CASE UNCHANGED <<events, digestRow>>
  BY <1>1 DEF LedgerInv, SameCheckpoints, CheckpointOK
<1>2. ASSUME NEW payload \in Clean, InsertEventWithDigest(payload) PROVE LedgerInv'
  <2>1. /\ events \in Seq(Payloads) /\ digestRow.digest \in Seq(Clean)
        /\ Len(digestRow.digest) = Len(events) /\ rewritten \in Nat
    BY DEF LedgerInv
  <2>2. /\ events' = Append(events, payload) /\ payload \in Payloads
        /\ digestRow' = [last |-> Len(events) + 1, digest |-> Append(digestRow.digest, payload)]
    BY <1>2 DEF InsertEventWithDigest, NextDigest, Payloads
  <2>3. /\ events' \in Seq(Payloads) /\ Len(events') = Len(events) + 1
        /\ \A k \in 1 .. Len(events) : events'[k] = events[k]
        /\ digestRow' \in [last : Nat, digest : Seq(Clean)]
        /\ digestRow'.last = Len(events') /\ Len(digestRow'.digest) = Len(events')
    BY <2>1, <2>2
  <2>4. rewritten = 0 => digestRow'.digest = events'
    BY <2>2 DEF LedgerInv
  <2>5. rewritten' # 0 => rewritten' \in 1 .. Len(events') /\ events'[rewritten'] = "rewritten"
    <3>1. rewritten # 0 => rewritten \in 1 .. Len(events) /\ events[rewritten] = "rewritten"
      BY DEF LedgerInv
    <3>2. 1 .. Len(events) \subseteq 1 .. Len(events')
      BY <2>1, <2>3
    <3> QED BY <2>3, <3>1, <3>2
  <2>6. ASSUME NEW i \in DOMAIN anchorLog PROVE CheckpointOK(anchorLog[i])'
    <3>1. /\ anchorLog[i].event = Len(anchorLog[i].digest) /\ anchorLog[i].event \in 1 .. Len(events)
          /\ rewritten = 0 => anchorLog[i].digest = SubSeq(events, 1, anchorLog[i].event)
      BY DEF LedgerInv, CheckpointOK
    <3>2. /\ anchorLog'[i].event = anchorLog[i].event /\ anchorLog'[i].digest = anchorLog[i].digest
      BY DEF SameCheckpoints
    <3>3. SubSeq(events', 1, anchorLog[i].event) = SubSeq(events, 1, anchorLog[i].event)
      BY <2>1, <2>3, <3>1
    <3>4. anchorLog[i].event \in 1 .. Len(events')
      BY <2>1, <2>3, <3>1
    <3> QED BY <3>1, <3>2, <3>3, <3>4 DEF CheckpointOK
  <2> QED BY <2>1, <2>3, <2>4, <2>5, <2>6 DEF LedgerInv, SameCheckpoints
<1> QED BY <1>1, <1>2

\* What the anchor's own steps ledger is one of these rows, or none.
LEMMA LedgerRowGrows ==
    ASSUME NEW payload \in Clean, LedgerRow(payload)
    PROVE  UNCHANGED <<events, digestRow>> \/ \E p \in Clean : InsertEventWithDigest(p)
BY DEF LedgerRow

\* The log as it was has its checkpoints.
LEMMA LogStands == ASSUME LedgerInv, UNCHANGED anchorLog PROVE SameCheckpoints
BY DEF LedgerInv, SameCheckpoints

\* The daemon ledgers something, or somebody rewrites a row.
LEMMA LedgerStep == ASSUME AnchorInv, LogEvent \/ Rewrite PROVE AnchorInv'
<1>1. UNCHANGED <<anchorLog, repoVars, pushVars, verifyVars>>
  BY DEF LogEvent, Rewrite
<1>2. RepoInv' /\ VerifyInv'
  BY <1>1 DEF AnchorInv, RepoInv, VerifyInv, Caught, LineOf, repoVars, pushVars, verifyVars
<1>3. CASE LogEvent
  <2>1. rewritten' = rewritten /\ \E payload \in Clean : InsertEventWithDigest(payload)
    BY <1>3 DEF LogEvent, Clean
  <2> QED BY <1>1, <1>2, <2>1, LogStands, LedgerGrows DEF AnchorInv
<1>4. CASE Rewrite
  <2>1. PICK i \in DOMAIN events : events' = [events EXCEPT ![i] = "rewritten"] /\ rewritten' = i
    BY <1>4 DEF Rewrite
  <2>2. events \in Seq(Payloads) /\ UNCHANGED <<digestRow, anchorLog>>
    BY <1>4 DEF Rewrite, AnchorInv, LedgerInv
  <2>3. /\ events' \in Seq(Payloads) /\ Len(events') = Len(events) /\ events'[i] = "rewritten"
        /\ i \in 1 .. Len(events) /\ i # 0 /\ i \in Nat
    BY <2>1, <2>2 DEF Payloads
  <2>4. \A k \in DOMAIN anchorLog : CheckpointOK(anchorLog[k])'
    BY <2>1, <2>2, <2>3 DEF AnchorInv, LedgerInv, CheckpointOK
  <2>5. LedgerInv'
    BY <2>1, <2>2, <2>3, <2>4 DEF AnchorInv, LedgerInv
  <2> QED BY <1>2, <2>5 DEF AnchorInv
<1> QED BY <1>3, <1>4

\* A row is claimed: the one still pending, or a new one for the digest.
LEMMA ClaimKeeps == ASSUME AnchorInv, ClaimPendingRow PROVE AnchorInv'
<1>0. /\ UNCHANGED <<events, digestRow, rewritten, tree, commits, remote, verifyAt, verified>>
      /\ pushLine' = Len(anchorLog') /\ pushAt' = "clone" /\ digestRow.last > 0
      /\ anchorLog \in Seq(AnchorRows) /\ digestRow \in [last : Nat, digest : Seq(Clean)]
  BY DEF ClaimPendingRow, repoVars, verifyVars, AnchorInv, LedgerInv
<1>1. CASE StillPending /\ UNCHANGED anchorLog
  <2>1. Len(anchorLog) \in DOMAIN anchorLog
    BY <1>0, <1>1 DEF StillPending
  <2>2. LedgerInv'
    BY <1>0, <1>1 DEF AnchorInv, LedgerInv, CheckpointOK
  <2>3. VerifyInv'
    BY <1>0, <1>1 DEF AnchorInv, VerifyInv, Caught
  <2>4. RepoInv'
    BY <1>0, <1>1, <2>1 DEF AnchorInv, RepoInv, LineOf
  <2> QED BY <2>2, <2>3, <2>4 DEF AnchorInv
<1>2. CASE anchorLog' = Append(anchorLog, [event |-> digestRow.last, digest |-> digestRow.digest,
                                           status |-> "pending"])
  <2>1. PICK new : new = [event |-> digestRow.last, digest |-> digestRow.digest, status |-> "pending"]
    OBVIOUS
  <2>2. /\ new \in AnchorRows /\ new.event = digestRow.last /\ new.digest = digestRow.digest
        /\ new.status = "pending"
    BY <1>0, <2>1 DEF AnchorRows
  <2>3. /\ anchorLog' \in Seq(AnchorRows) /\ Len(anchorLog') = Len(anchorLog) + 1
        /\ anchorLog'[Len(anchorLog) + 1] = new /\ Len(anchorLog') \in DOMAIN anchorLog'
        /\ \A i \in DOMAIN anchorLog : i \in DOMAIN anchorLog' /\ anchorLog'[i] = anchorLog[i]
        /\ \A i \in DOMAIN anchorLog' : i \in DOMAIN anchorLog \/ i = Len(anchorLog) + 1
    BY <1>0, <1>2, <2>1, <2>2
  <2>4. /\ events \in Seq(Payloads) /\ new.event = Len(new.digest) /\ new.event \in 1 .. Len(events)
        /\ rewritten = 0 => new.digest = SubSeq(events, 1, new.event)
    BY <1>0, <2>2 DEF AnchorInv, LedgerInv
  <2>5. \A i \in DOMAIN anchorLog' : CheckpointOK(anchorLog'[i])
    BY <2>3, <2>4 DEF AnchorInv, LedgerInv, CheckpointOK
  <2>6. LedgerInv'
    BY <1>0, <2>3, <2>5 DEF AnchorInv, LedgerInv, CheckpointOK
  <2>7. VerifyInv'
    BY <1>0, <2>3 DEF AnchorInv, VerifyInv, Caught
  <2>8. \A i \in DOMAIN anchorLog' :
           anchorLog'[i].status = "pushed" => LineOf(anchorLog'[i]) \in Lines(remote)
    BY <2>2, <2>3 DEF AnchorInv, RepoInv
  <2>9. RepoInv'
    BY <1>0, <2>3, <2>8 DEF AnchorInv, RepoInv, LineOf
  <2> QED BY <2>6, <2>7, <2>9 DEF AnchorInv
<1> QED BY <1>1, <1>2 DEF ClaimPendingRow

\* A line more has the lines there were.
LEMMA LineAdded ==
    ASSUME NEW log \in Seq(AnchorLines), NEW line \in AnchorLines
    PROVE  /\ Append(log, line) \in Seq(AnchorLines)
           /\ Lines(Append(log, line)) = Lines(log) \cup {line}
<1>1. /\ Append(log, line) \in Seq(AnchorLines) /\ Len(Append(log, line)) = Len(log) + 1
      /\ \A k \in 1 .. Len(log) : Append(log, line)[k] = log[k]
      /\ Append(log, line)[Len(log) + 1] = line
  OBVIOUS
<1>2. \A k : k \in DOMAIN Append(log, line) <=> k \in DOMAIN log \/ k = Len(log) + 1
  BY <1>1
<1> QED BY <1>1, <1>2 DEF Lines

\* The line is written, committed and pushed.
LEMMA RepoStep ==
    ASSUME AnchorInv, EnsureClone \/ AppendAnchorLine \/ GitCommit \/ GitPush
    PROVE  AnchorInv'
<1>1. UNCHANGED <<events, digestRow, anchorLog, rewritten, verifyAt, verified, pushLine>>
  BY DEF EnsureClone, AppendAnchorLine, GitCommit, GitPush, dbVars, verifyVars
<1>2. LedgerInv' /\ VerifyInv'
  BY <1>1 DEF AnchorInv, LedgerInv, CheckpointOK, VerifyInv, Caught
<1>3. pushLine \in DOMAIN anchorLog /\ LineOf(anchorLog[pushLine]) \in AnchorLines
  <2>1. pushLine \in DOMAIN anchorLog
    BY DEF EnsureClone, AppendAnchorLine, GitCommit, GitPush, AnchorInv, RepoInv
  <2>2. anchorLog[pushLine] \in AnchorRows
    BY <2>1 DEF AnchorInv, LedgerInv
  <2> QED BY <2>1, <2>2 DEF LineOf, AnchorRows, AnchorLines
<1>4. CASE EnsureClone
  BY <1>1, <1>2, <1>3, <1>4 DEF EnsureClone, repoVars, AnchorInv, RepoInv, LineOf
<1>5. CASE AppendAnchorLine
  <2>1. /\ tree' = Append(tree, LineOf(anchorLog[pushLine])) /\ pushAt' = "commit"
        /\ UNCHANGED <<commits, remote>>
    BY <1>5 DEF AppendAnchorLine
  <2>2. tree' \in Seq(AnchorLines) /\ Lines(tree') = Lines(tree) \cup {LineOf(anchorLog[pushLine])}
    BY <1>3, <2>1, LineAdded DEF AnchorInv, RepoInv
  <2>3. RepoInv'
    BY <1>1, <1>3, <2>1, <2>2 DEF AnchorInv, RepoInv, LineOf
  <2> QED BY <1>2, <2>3 DEF AnchorInv
<1>6. CASE GitCommit
  <2>1. commits' = tree /\ pushAt = "commit" /\ pushAt' = "push" /\ UNCHANGED <<tree, remote>>
    BY <1>6 DEF GitCommit
  <2>2. RepoInv'
    BY <1>1, <1>3, <2>1 DEF AnchorInv, RepoInv, LineOf
  <2> QED BY <1>2, <2>2 DEF AnchorInv
<1>7. CASE GitPush
  <2>1. remote' = commits /\ pushAt = "push" /\ pushAt' = "mark" /\ UNCHANGED <<tree, commits>>
    BY <1>7 DEF GitPush, GitPushed
  <2>2. RepoInv'
    BY <1>1, <1>3, <2>1 DEF AnchorInv, RepoInv, LineOf
  <2> QED BY <1>2, <2>2 DEF AnchorInv
<1> QED BY <1>4, <1>5, <1>6, <1>7

\* The row is marked once its line is at the remote.
LEMMA MarkKeeps == ASSUME AnchorInv, MarkPushed PROVE AnchorInv'
<1>0. /\ pushAt = "mark" /\ pushAt' = "idle" /\ pushLine \in DOMAIN anchorLog
      /\ anchorLog' = [anchorLog EXCEPT ![pushLine].status = "pushed"]
      /\ UNCHANGED <<rewritten, tree, commits, remote, pushLine, verifyAt, verified>>
      /\ anchorLog \in Seq(AnchorRows) /\ LineOf(anchorLog[pushLine]) \in Lines(remote)
  BY DEF MarkPushed, repoVars, verifyVars, AnchorInv, RepoInv, LedgerInv
<1>1. PICK r : r = [anchorLog[pushLine] EXCEPT !.status = "pushed"]
  OBVIOUS
<1>2. /\ r \in AnchorRows /\ r.event = anchorLog[pushLine].event
      /\ r.digest = anchorLog[pushLine].digest
  <2>1. anchorLog[pushLine] \in AnchorRows
    BY <1>0
  <2> QED BY <1>1, <2>1 DEF AnchorRows
<1>3. /\ anchorLog' \in Seq(AnchorRows) /\ DOMAIN anchorLog' = DOMAIN anchorLog
      /\ anchorLog'[pushLine] = r
      /\ \A i \in DOMAIN anchorLog : i # pushLine => anchorLog'[i] = anchorLog[i]
  BY <1>0, <1>1, <1>2
<1>4. SameCheckpoints
  BY <1>2, <1>3 DEF SameCheckpoints
<1>5. UNCHANGED <<events, digestRow>> \/ \E p \in Clean : InsertEventWithDigest(p)
  BY LedgerRowGrows DEF MarkPushed, Clean
<1>6. LedgerInv'
  BY <1>0, <1>4, <1>5, LedgerGrows DEF AnchorInv
<1>7. VerifyInv'
  BY <1>0, <1>4 DEF AnchorInv, VerifyInv, Caught, SameCheckpoints
<1>8. \A i \in DOMAIN anchorLog' : anchorLog'[i].status = "pushed" => LineOf(anchorLog'[i]) \in Lines(remote)
  BY <1>0, <1>2, <1>3 DEF AnchorInv, RepoInv, LineOf
<1>9. RepoInv'
  BY <1>0, <1>3, <1>8 DEF AnchorInv, RepoInv, LineOf
<1> QED BY <1>6, <1>7, <1>9 DEF AnchorInv

\* A git command fails, or the daemon dies: the push and the verify are over.
LEMMA FailureKeeps == ASSUME AnchorInv, GitFails \/ AnchorCrash PROVE AnchorInv'
<1>1. /\ UNCHANGED <<anchorLog, rewritten, tree, commits, remote, pushLine, verified>>
      /\ pushAt' \in {pushAt, "idle"} /\ verifyAt' \in {verifyAt, "idle"}
  BY DEF GitFails, AnchorCrash, dbVars, repoVars
<1>2. UNCHANGED <<events, digestRow>> \/ \E p \in Clean : InsertEventWithDigest(p)
  <2>1. UNCHANGED <<events, digestRow>> \/ LedgerRow("stale")
    BY DEF GitFails, AnchorCrash, dbVars
  <2> QED BY <2>1, LedgerRowGrows DEF Clean
<1>3. LedgerInv'
  BY <1>1, <1>2, LogStands, LedgerGrows DEF AnchorInv
<1>4. RepoInv'
  BY <1>1 DEF AnchorInv, RepoInv, LineOf
<1>5. VerifyInv'
  BY <1>1 DEF AnchorInv, VerifyInv, Caught
<1> QED BY <1>3, <1>4, <1>5 DEF AnchorInv

\* A verify reads, and fails on the checkpoint over a rewritten event.
LEMMA VerifyStep == ASSUME AnchorInv, ReadEvents \/ CheckRows \/ CheckRemote PROVE AnchorInv'
<1>1. UNCHANGED <<anchorLog, rewritten, tree, commits, remote, pushAt, pushLine>>
  BY DEF ReadEvents, CheckRows, CheckRemote, dbVars, repoVars, pushVars
<1>2. UNCHANGED <<events, digestRow>> \/ \E p \in Clean : InsertEventWithDigest(p)
  <2>1. UNCHANGED <<events, digestRow>> \/ LedgerRow("mismatch")
    BY DEF ReadEvents, CheckRows, CheckRemote, Mismatch, dbVars
  <2> QED BY <2>1, LedgerRowGrows DEF Clean
<1>3. LedgerInv'
  BY <1>1, <1>2, LogStands, LedgerGrows DEF AnchorInv
<1>4. RepoInv'
  BY <1>1 DEF AnchorInv, RepoInv, LineOf
<1>5. VerifyInv'
  <2>1. CASE ReadEvents
    <3>1. /\ verified' = [events |-> events, dirty |-> rewritten # 0
                            /\ \E i \in DOMAIN anchorLog : anchorLog[i].event >= rewritten]
          /\ verifyAt' = "rows"
      BY <2>1 DEF ReadEvents
    <3>2. /\ verified' \in [events : Seq(Payloads), dirty : BOOLEAN] /\ verified'.events = events
          /\ verified'.dirty => rewritten # 0
                                  /\ \E i \in DOMAIN anchorLog : anchorLog[i].event >= rewritten
      BY <3>1 DEF AnchorInv, LedgerInv
    <3>3. ASSUME verified'.dirty PROVE Caught'
      <4>1. PICK i \in DOMAIN anchorLog : anchorLog[i].event >= rewritten
        BY <3>2, <3>3
      <4>2. /\ rewritten \in 1 .. Len(events) /\ events[rewritten] = "rewritten"
            /\ anchorLog[i].event \in 1 .. Len(events) /\ events \in Seq(Payloads)
        BY <3>2, <3>3 DEF AnchorInv, LedgerInv, CheckpointOK
      <4>3. rewritten \in 1 .. anchorLog[i].event /\ anchorLog[i].event <= Len(events)
        BY <4>1, <4>2
      <4> QED BY <1>1, <3>2, <4>2, <4>3 DEF Caught
    <3> QED BY <3>1, <3>2, <3>3 DEF VerifyInv
  <2>2. CASE CheckRows
    <3>1. /\ UNCHANGED verified /\ verifyAt = "rows" /\ verifyAt' \in {"remote", "idle"}
          /\ verifyAt' = "remote" => RowsMatch
      BY <2>2 DEF CheckRows
    <3>2. ASSUME RowsMatch, verified.dirty PROVE FALSE
      <4>0. PICK i \in DOMAIN anchorLog : \E r \in 1 .. anchorLog[i].event :
               anchorLog[i].event <= Len(verified.events) /\ verified.events[r] = "rewritten"
        BY <3>1, <3>2 DEF AnchorInv, VerifyInv, Caught
      <4>1. PICK r \in 1 .. anchorLog[i].event :
               anchorLog[i].event <= Len(verified.events) /\ verified.events[r] = "rewritten"
        BY <4>0
      <4>2. /\ anchorLog[i].digest = SubSeq(verified.events, 1, anchorLog[i].event)
            /\ verified.events \in Seq(Payloads)
        BY <3>2, <4>1 DEF RowsMatch, Checked, AnchorInv, VerifyInv
      <4>3. /\ anchorLog[i].digest \in Seq(Clean) /\ anchorLog[i].event = Len(anchorLog[i].digest)
            /\ anchorLog[i].event \in Nat
        <5>1. anchorLog[i] \in AnchorRows
          BY DEF AnchorInv, LedgerInv
        <5>2. CheckpointOK(anchorLog[i])
          BY DEF AnchorInv, LedgerInv
        <5> QED BY <5>1, <5>2 DEF CheckpointOK, AnchorRows
      <4>4. anchorLog[i].digest[r] = "rewritten"
        <5>1. ASSUME NEW s \in Seq(Payloads), NEW n \in Nat, n <= Len(s), NEW k \in 1 .. n
              PROVE  SubSeq(s, 1, n)[k] = s[k]
          OBVIOUS
        <5>2. SubSeq(verified.events, 1, anchorLog[i].event)[r] = verified.events[r]
          BY <4>1, <4>2, <4>3, <5>1
        <5> QED BY <4>1, <4>2, <5>2
      <4>5. anchorLog[i].digest[r] \in Clean
        BY <4>1, <4>3
      <4> QED BY <4>4, <4>5 DEF Clean
    <3> QED BY <3>1, <3>2 DEF AnchorInv, VerifyInv
  <2>3. CASE CheckRemote
    BY <1>1, <2>3 DEF CheckRemote, AnchorInv, VerifyInv
  <2> QED BY <2>1, <2>2, <2>3
<1> QED BY <1>3, <1>4, <1>5 DEF AnchorInv

\* The ledger, the log and the repository begin empty.
LEMMA InitAnchor == AnchorInit => AnchorInv
<1> SUFFICES ASSUME AnchorInit PROVE AnchorInv
  OBVIOUS
<1>1. LedgerInv
  BY DEF AnchorInit, LedgerInv
<1>2. RepoInv
  BY DEF AnchorInit, RepoInv, Lines
<1>3. VerifyInv
  BY DEF AnchorInit, VerifyInv, NothingRead
<1> QED BY <1>1, <1>2, <1>3 DEF AnchorInv

\* For any number of events, pushes, failures, crashes and verifies: a
\* checkpoint is the ledger as it was, a row marked pushed is at the remote, and
\* a verify that read a rewritten event under a checkpoint does not say ok.
THEOREM LedgerStaysAnchored ==
    AnchorSafety => [](CheckpointsAreHistory /\ PushedIsAtRemote) /\ RewriteIsReported
<1>1. AnchorInv /\ [AnchorNext]_anchorVars => AnchorInv'
  <2> SUFFICES ASSUME AnchorInv, [AnchorNext]_anchorVars PROVE AnchorInv'
    OBVIOUS
  <2>1. CASE UNCHANGED anchorVars
    BY <2>1 DEF anchorVars, dbVars, repoVars, pushVars, verifyVars, AnchorInv, LedgerInv,
       CheckpointOK, RepoInv, LineOf, VerifyInv, Caught
  <2> QED
    BY <2>1, LedgerStep, ClaimKeeps, RepoStep, MarkKeeps, FailureKeeps, VerifyStep
    DEF AnchorNext, PushStep
<1>2. AnchorInv => CheckpointsAreHistory /\ PushedIsAtRemote
  <2> SUFFICES ASSUME AnchorInv PROVE CheckpointsAreHistory /\ PushedIsAtRemote
    OBVIOUS
  <2>1. ASSUME NEW i \in DOMAIN anchorLog, NEW k \in 1 .. anchorLog[i].event
        PROVE  anchorLog[i].digest[k] # "rewritten"
    <3>1. /\ anchorLog[i].digest \in Seq(Clean) /\ anchorLog[i].event = Len(anchorLog[i].digest)
      <4>1. anchorLog[i] \in AnchorRows
        BY DEF AnchorInv, LedgerInv
      <4>2. CheckpointOK(anchorLog[i])
        BY DEF AnchorInv, LedgerInv
      <4> QED BY <4>1, <4>2 DEF CheckpointOK, AnchorRows
    <3>2. anchorLog[i].digest[k] \in Clean
      BY <3>1
    <3> QED BY <3>2 DEF Clean
  <2>2. CheckpointsAreHistory
    BY <2>1 DEF CheckpointsAreHistory, AnchorInv, LedgerInv, CheckpointOK
  <2>3. PushedIsAtRemote
    BY DEF PushedIsAtRemote, AnchorInv, RepoInv, Lines
  <2> QED BY <2>2, <2>3
<1>3. AnchorInv /\ [AnchorNext]_anchorVars
        => [verdict' = "ok" /\ verifyAt' = "idle" /\ verifyAt = "remote" => ~verified.dirty]_anchorVars
  BY DEF AnchorInv, VerifyInv
<1> QED BY <1>1, <1>2, <1>3, InitAnchor, PTL DEF AnchorSafety, RewriteIsReported

-----------------------------------------------------------------------------
(***************************************************************************)
(* The launchd lists, for any set of jobs, any schedules and any number of *)
(* runs that are cut off anywhere.                                         *)
(***************************************************************************)
LaunchdSafety == LaunchdInit /\ [][LaunchdNext]_launchdVars

\* A job runs by its file, unless its load failed or is just under way; the
\* jobs the first loop is done with have the file the configuration asks for.
SyncInv ==
    /\ want \in [SyncJobs -> Schedules] /\ plist \in [SyncJobs -> Schedules]
    /\ loaded \in [SyncJobs -> Schedules]
    /\ syncAt \in {"idle", "install", "bootstrap", "done"}
    /\ current \in SyncJobs
    /\ pending \subseteq {j \in SyncJobs : want[j] # Absent}
    /\ syncAt \in {"idle", "done"} => pending = {}
    /\ \A j \in SyncJobs :
          loaded[j] = plist[j] \/ j \in failedLoad \/ (syncAt = "bootstrap" /\ j = current)
    /\ syncAt \in {"install", "bootstrap"} =>
          \A j \in SyncJobs : want[j] # Absent => j \in pending \/ plist[j] = want[j]
    /\ syncAt = "done" => \A j \in SyncJobs : plist[j] = want[j]

\* Every step of Sync, of the user's edits and of a kill keeps that.
LEMMA SyncKeeps == ASSUME SyncInv, [LaunchdNext]_launchdVars PROVE SyncInv'
<1>0. Absent \in Schedules /\ Absent \in Int
  BY LaunchdAssumption DEF Absent, Schedules
<1>1. CASE UNCHANGED launchdVars
  BY <1>1 DEF SyncInv, launchdVars
<1>2. CASE EditConfig
  BY <1>2 DEF SyncInv, EditConfig
<1>3. CASE StartSync
  BY <1>3 DEF SyncInv, StartSync
<1>4. CASE InstallJob
  <2>1. PICK j \in pending : /\ pending' = pending \ {j}
                             /\ IF SameContent(j)
                                  THEN UNCHANGED <<plist, syncAt, current>>
                                  ELSE /\ plist' = [plist EXCEPT ![j] = want[j]]
                                       /\ current' = j
                                       /\ syncAt' = "bootstrap"
    BY <1>4 DEF InstallJob
  <2>2. syncAt = "install" /\ UNCHANGED <<want, loaded, failedLoad>> /\ j \in SyncJobs
    BY <1>4 DEF InstallJob, SyncInv
  <2>3. CASE SameContent(j)
    BY <2>1, <2>2, <2>3 DEF SyncInv, SameContent
  <2>4. CASE ~SameContent(j)
    <3>1. plist' \in [SyncJobs -> Schedules] /\ plist'[j] = want[j]
          /\ \A k \in SyncJobs : k # j => plist'[k] = plist[k]
      BY <2>1, <2>2, <2>4 DEF SyncInv
    <3> QED BY <2>1, <2>2, <2>4, <3>1 DEF SyncInv
  <2> QED BY <2>3, <2>4
<1>5. CASE Bootstrap
  BY <1>0, <1>5 DEF SyncInv, Bootstrap
<1>6. CASE RemoveStale
  BY <1>0, <1>6 DEF SyncInv, RemoveStale, Stale
<1>7. CASE SyncReturns
  BY <1>7 DEF SyncInv, SyncReturns, Stale
<1>8. CASE SyncCut
  BY <1>8 DEF SyncInv, SyncCut
<1> QED BY <1>1, <1>2, <1>3, <1>4, <1>5, <1>6, <1>7, <1>8 DEF LaunchdNext

\* When Sync returns nil the property lists are the configuration's, whatever
\* earlier runs that failed or were killed had left (launchd.go, Sync), and
\* every job is loaded as its list says, except where its load failed.
THEOREM SyncIsWhole == LaunchdSafety => []SyncInstalls
<1>1. LaunchdInit => SyncInv
  BY LaunchdAssumption DEF LaunchdInit, SyncInv, Schedules, Absent
<1>2. SyncInv => SyncInstalls
  BY DEF SyncInv, SyncInstalls
<1> QED BY <1>1, <1>2, SyncKeeps, PTL DEF LaunchdSafety

-----------------------------------------------------------------------------
(***************************************************************************)
(* The snapshots, for any number of days and of runs on a day, and any     *)
(* retention.  A run prunes only after the ledger has today's row, so that *)
(* the newest recorded snapshot is today's, which is never among the       *)
(* pruned; and what lies above the newest pruned one stays whole.          *)
(***************************************************************************)
BackupSafety == BackupInit /\ [][BackupNext]_backupVars

BackupInv ==
    /\ today \in 1..MaxDay
    /\ snapshots \in [1..MaxDay -> {NoFile, "good"}]
    /\ Kept(snapshots) \subseteq 1..today
    /\ backupAt = "rename" => staging = "good"
    /\ backupAt \in {"ledger", "prune"} => today \in Kept(snapshots)
    /\ recorded \subseteq 1..today
    /\ backupAt = "prune" => today \in recorded
    /\ recorded # {} => \E d \in Kept(snapshots) \cap recorded : \A x \in recorded : d >= x

\* The greatest number of a set that has one.
LEMMA MaxIs ==
    ASSUME NEW S \in SUBSET Nat, NEW d \in S, \A x \in S : d >= x
    PROVE  Max(S) = d
<1>1. \A m \in S : (\A x \in S : m >= x) => m = d
  OBVIOUS
<1> QED BY <1>1 DEF Max

\* A run keeps the snapshots whole, and today's is the newest there is.
LEMMA BackupKeeps == ASSUME BackupInv, [BackupNext]_backupVars PROVE BackupInv'
<1>0. NoFile # "good" /\ \A d \in 1..MaxDay : d \in Kept(snapshots) <=> snapshots[d] # NoFile
  BY DEF NoFile, Kept, BackupInv
<1>1. CASE UNCHANGED backupVars
  BY <1>1 DEF BackupInv, backupVars
<1>2. CASE NextDay
  BY <1>2, BackupAssumption DEF BackupInv, NextDay
<1>3. CASE RemoveStaleStaging \/ Vacuum \/ VacuumDone \/ Fail \/ BackupCut
  BY <1>3 DEF BackupInv, RemoveStaleStaging, Vacuum, VacuumDone, Fail, BackupCut
<1>4. CASE Verify
  BY <1>4 DEF BackupInv, Verify, IntegrityOK
<1>5. CASE Rename
  <2>1. snapshots' = [snapshots EXCEPT ![today] = "good"] /\ backupAt' = "ledger"
        /\ UNCHANGED <<today, recorded>>
    BY <1>5 DEF BackupInv, Rename
  <2>2. snapshots' \in [1..MaxDay -> {NoFile, "good"}]
        /\ Kept(snapshots') = Kept(snapshots) \cup {today}
    BY <1>0, <2>1 DEF BackupInv, Kept
  <2>3. today \in Kept(snapshots') /\ Kept(snapshots') \subseteq 1..today
    BY <2>2, BackupAssumption DEF BackupInv
  <2>4. recorded # {} => \E d \in Kept(snapshots') \cap recorded : \A x \in recorded : d >= x
    <3> HIDE DEF Kept
    <3> QED BY <2>2 DEF BackupInv
  <2> QED BY <2>1, <2>2, <2>3, <2>4 DEF BackupInv
<1>6. CASE LedgerCompleted
  <2>1. UNCHANGED <<today, snapshots, staging>>
    BY <1>6 DEF LedgerCompleted
  <2>2. CASE UNCHANGED recorded /\ backupAt' = "idle"
    BY <2>1, <2>2 DEF BackupInv
  <2>3. CASE recorded' = recorded \cup {today} /\ backupAt' = "prune"
    <3>1. today \in Kept(snapshots) \cap recorded' /\ \A x \in recorded' : today >= x
      BY <1>6, <2>3 DEF BackupInv, LedgerCompleted
    <3> QED BY <2>1, <2>3, <3>1 DEF BackupInv
  <2> QED BY <1>6, <2>2, <2>3 DEF LedgerCompleted
<1>7. CASE Prune
  <2>1. PICK failed \in SUBSET Pruned : snapshots' = [d \in DOMAIN snapshots |->
                         IF d \in Pruned \ failed THEN NoFile ELSE snapshots[d]]
    BY <1>7 DEF Prune
  <2>2. today \notin Pruned
    <3>1. {x \in Kept(snapshots) : x > today} = {}
      BY DEF BackupInv
    <3> QED BY <3>1, FS_EmptySet, BackupAssumption DEF Pruned
  <2>3. snapshots' \in [1..MaxDay -> {NoFile, "good"}] /\ Kept(snapshots') \subseteq Kept(snapshots)
    BY <2>1 DEF BackupInv, Kept
  <2>4. today \in Kept(snapshots')
    BY <1>0, <1>7, <2>1, <2>2 DEF BackupInv, Prune, Kept
  <2>5. UNCHANGED <<today, staging, recorded>> /\ backupAt' = "idle" /\ today \in recorded
    BY <1>7 DEF BackupInv, Prune
  <2>6. \A x \in recorded : today >= x
    BY DEF BackupInv
  <2>7. Kept(snapshots)' \subseteq 1..today
    BY <2>3 DEF BackupInv
  <2>8. \E d \in Kept(snapshots)' \cap recorded : \A x \in recorded : d >= x
    BY <2>4, <2>5, <2>6
  <2> QED BY <2>3, <2>5, <2>7, <2>8 DEF BackupInv
<1> QED BY <1>1, <1>2, <1>3, <1>4, <1>5, <1>6, <1>7 DEF BackupNext

\* What is pruned has enough newer ones that stay.
LEMMA PruneLeavesNewer ==
    ASSUME BackupInv, [BackupNext]_backupVars, NEW d \in Kept(snapshots) \ Kept(snapshots')
    PROVE  Cardinality({x \in Kept(snapshots') : x > d}) >= Retention
<1>1. CASE Rename
  <2>1. snapshots' = [snapshots EXCEPT ![today] = "good"]
    BY <1>1 DEF BackupInv, Rename
  <2>2. Kept(snapshots) \subseteq Kept(snapshots')
    BY <2>1 DEF BackupInv, Kept, NoFile
  <2> QED BY <2>2
<1>2. CASE Prune
  <2>1. PICK failed \in SUBSET Pruned : snapshots' = [e \in DOMAIN snapshots |->
                         IF e \in Pruned \ failed THEN NoFile ELSE snapshots[e]]
    BY <1>2 DEF Prune
  <2>2. d \in Pruned /\ Pruned \subseteq 1..MaxDay
    BY <2>1 DEF Kept, BackupInv, Pruned
  <2>3. PICK p \in Pruned : \A y \in Pruned : p >= y
    BY <2>2, GreatestNumber, BackupAssumption
  <2> DEFINE above == {x \in Kept(snapshots) : x > p}
             left == {x \in Kept(snapshots') : x > d}
  <2>4. Cardinality(above) >= Retention
    BY <2>3 DEF Pruned
  <2>5. above \subseteq left
    <3> SUFFICES ASSUME NEW x \in above PROVE x \in left
      OBVIOUS
    <3>1. x \in 1..MaxDay /\ x > p /\ snapshots[x] # NoFile /\ p \in 1..MaxDay /\ d \in 1..MaxDay
      BY <2>2, <2>3 DEF Kept, BackupInv
    <3>2. x \notin Pruned
      BY <2>2, <2>3, <3>1
    <3>3. snapshots'[x] = snapshots[x] /\ x \in DOMAIN snapshots'
      BY <2>1, <3>1, <3>2 DEF BackupInv
    <3>4. x > d
      BY <2>2, <2>3, <3>1
    <3> QED BY <3>1, <3>3, <3>4 DEF Kept
  <2>6. IsFiniteSet(left)
    <3>1. left \subseteq 1..MaxDay
      BY <2>1 DEF Kept, BackupInv
    <3>2. IsFiniteSet(1..MaxDay)
      BY FS_Interval, BackupAssumption
    <3> HIDE DEF left
    <3> QED BY <3>1, <3>2, FS_Subset
  <2>7. Cardinality(above) <= Cardinality(left) /\ Cardinality(above) \in Nat /\ Cardinality(left) \in Nat
    <3> HIDE DEF above, left
    <3> QED BY <2>5, <2>6, FS_Subset, FS_CardinalityType
  <2> QED BY <2>4, <2>7, BackupAssumption
<1>3. CASE snapshots' = snapshots
  BY <1>3
<1>4. Rename \/ Prune \/ snapshots' = snapshots
  BY DEF BackupNext, NextDay, RemoveStaleStaging, Vacuum, VacuumDone, Verify, LedgerCompleted,
     Fail, BackupCut, backupVars
<1> QED BY <1>1, <1>2, <1>3, <1>4

\* Whatever a nightly run is cut off by, what has a snapshot's name is a whole
\* database; nothing that is among the newest goes away, and the newest one
\* that the ledger knows of is there (Snapshotter.Run, prune).
THEOREM SnapshotsAreSafe == BackupSafety => []SnapshotsAreWhole /\ NewestSnapshotsStay
<1>1. BackupInit => BackupInv
  BY BackupAssumption DEF BackupInit, BackupInv, Kept
<1>2. BackupInv => SnapshotsAreWhole
  BY DEF BackupInv, SnapshotsAreWhole, Kept
<1>3. BackupInv /\ BackupInv' /\ [BackupNext]_backupVars =>
        [/\ \A d \in Kept(snapshots) \ Kept(snapshots') :
              Cardinality({x \in Kept(snapshots') : x > d}) >= Retention
         /\ recorded' # {} => Max(recorded') \in Kept(snapshots')]_backupVars
  <2> SUFFICES ASSUME BackupInv, BackupInv', [BackupNext]_backupVars
               PROVE  /\ \A d \in Kept(snapshots) \ Kept(snapshots') :
                            Cardinality({x \in Kept(snapshots') : x > d}) >= Retention
                      /\ recorded' # {} => Max(recorded') \in Kept(snapshots')
    OBVIOUS
  <2>1. ASSUME recorded' # {} PROVE Max(recorded') \in Kept(snapshots')
    <3>1. PICK d \in Kept(snapshots') \cap recorded' : \A x \in recorded' : d >= x
      BY <2>1 DEF BackupInv
    <3>2. recorded' \in SUBSET Nat
      BY DEF BackupInv
    <3>3. Max(recorded') = d
      BY <3>1, <3>2, MaxIs
    <3> QED BY <3>1, <3>3
  <2> QED BY <2>1, PruneLeavesNewer
<1>4. BackupSafety => []BackupInv
  BY <1>1, BackupKeeps, PTL DEF BackupSafety
<1> QED BY <1>2, <1>3, <1>4, PTL DEF BackupSafety, NewestSnapshotsStay
=============================================================================
