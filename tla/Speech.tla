------------------------------- MODULE Speech -------------------------------
(***************************************************************************)
(* notify.Speaker (kahyad/internal/notify/tts.go): an answer is spoken by  *)
(* a `say` process, called by every task handler in a goroutine of its own *)
(* and silenced by the halt key from another one.  One mutex is held for   *)
(* as long as a process speaks, a second one guards the record of whose it *)
(* is.                                                                     *)
(***************************************************************************)
EXTENDS Integers, FiniteSets

CONSTANTS
    Speakers,         \* tasks with an answer
    TtsEnabled,       \* cfg.Enabled
    SpeakSecretLane,  \* cfg.SpeakSecretLane
    Nobody

ASSUME SpeechAssumption ==
    TtsEnabled \in BOOLEAN /\ SpeakSecretLane \in BOOLEAN /\ Nobody \notin Speakers

VARIABLES
    answer,    \* the lane of an answer, and whether speech was asked for
    speakPc,   \* where a Speak is
    voice,     \* voiceCheckOnce and voiceInstalled
    notices,   \* history: times the user was told that the voice is missing
    lock,      \* serializeMu
    active,    \* activeTaskID and activePID
    talking,   \* the tasks whose process is alive
    halter,    \* the halt key: what it is about to kill, and for whom
    cutFor     \* history: for whom a task's process was killed

spVars == <<answer, speakPc, voice, notices, lock, active, talking, halter, cutFor>>

Everyone == "everyone"

SpeechInit ==
    /\ answer \in [Speakers -> [lane : {"normal", "secret"}, force : BOOLEAN]]
    /\ speakPc = [t \in Speakers |-> "idle"]
    /\ voice = "unchecked" /\ notices = 0
    /\ lock = Nobody /\ active = Nobody /\ talking = {}
    /\ halter = [pc |-> "idle"] /\ cutFor = [t \in Speakers |-> Nobody]

At(t, pc) == speakPc[t] = pc
Go(t, pc) == speakPc' = [speakPc EXCEPT ![t] = pc]

\* Defect: what the user asked for is spoken.
BugWanted(a) == a.force \/ (TtsEnabled /\ (a.lane = "secret" => SpeakSecretLane))

Wanted(a) == (TtsEnabled \/ a.force) /\ (a.lane = "secret" => SpeakSecretLane)

\* maybeSpeak and Speak up to the voice.
Speak(t) ==
    /\ At(t, "idle")
    /\ Go(t, IF Wanted(answer[t]) THEN "voice" ELSE "over")
    /\ UNCHANGED <<answer, voice, notices, lock, active, talking, halter, cutFor>>

\* Defect: a missing voice is looked for again.
BugChecked(found) == IF found THEN "installed" ELSE "unchecked"

Checked(found) == IF found THEN "installed" ELSE "missing"

\* voiceAvailable, once in a daemon's life; a blank answer ends here too.
VoiceAvailable(t) ==
    /\ At(t, "voice")
    /\ \E found, blank \in BOOLEAN :
         /\ voice' = IF voice = "unchecked" THEN Checked(found) ELSE voice
         /\ notices' = IF voice = "unchecked" /\ ~ found THEN notices + 1 ELSE notices
         /\ Go(t, IF voice' = "installed" /\ ~ blank THEN "queue" ELSE "over")
    /\ UNCHANGED <<answer, lock, active, talking, halter, cutFor>>

Lock(t) ==
    /\ At(t, "queue") /\ lock = Nobody
    /\ lock' = t /\ Go(t, "locked")
    /\ UNCHANGED <<answer, voice, notices, active, talking, halter, cutFor>>

\* Defect: the mutex is for the start alone.
BugLockAfterStart(t) == Nobody

LockAfterStart(t) == t

\* Defect: the early return keeps the mutex.
BugLockAfterFailure(t) == t

LockAfterFailure(t) == Nobody

\* cmd.Start.
StartSay(t) ==
    /\ At(t, "locked")
    /\ \/ talking' = talking \cup {t} /\ Go(t, "started") /\ lock' = LockAfterStart(t)
       \/ Go(t, "over") /\ lock' = LockAfterFailure(t) /\ UNCHANGED talking
    /\ UNCHANGED <<answer, voice, notices, active, halter, cutFor>>

SetActive(t) ==
    /\ At(t, "started")
    /\ active' = t /\ Go(t, "wait")
    /\ UNCHANGED <<answer, voice, notices, lock, talking, halter, cutFor>>

\* The process has said it all.
SayEnds(t) ==
    /\ t \in talking /\ talking' = talking \ {t}
    /\ UNCHANGED <<answer, speakPc, voice, notices, lock, active, halter, cutFor>>

\* cmd.Wait has returned; the deferred calls run in reverse order.
ClearActive(t) ==
    /\ At(t, "wait") /\ t \notin talking
    /\ active' = IF active = t THEN Nobody ELSE active
    /\ Go(t, "cleared")
    /\ UNCHANGED <<answer, voice, notices, lock, talking, halter, cutFor>>

Unlock(t) ==
    /\ At(t, "cleared") /\ Go(t, "over")
    /\ lock' = Nobody
    /\ UNCHANGED <<answer, voice, notices, active, talking, halter, cutFor>>

\* Defect: whatever speaks is killed.
BugTarget(t) == active

Target(t) == IF active = t THEN active ELSE Nobody

\* KillTaskSpeech and KillAllSpeech: the process is read under the mutex.
KillSpeech ==
    /\ halter.pc = "idle"
    /\ \/ \E t \in Speakers : halter' = [pc |-> "kill", target |-> Target(t), for |-> t]
       \/ halter' = [pc |-> "kill", target |-> active, for |-> Everyone]
    /\ UNCHANGED <<answer, speakPc, voice, notices, lock, active, talking, cutFor>>

\* killSpeechPID: no process, or one that has ended, is no error.
KillSpeechPID ==
    /\ halter.pc = "kill"
    /\ talking' = talking \ {halter.target}
    /\ cutFor' = IF halter.target \in talking
                   THEN [cutFor EXCEPT ![halter.target] = halter.for] ELSE cutFor
    /\ halter' = [pc |-> "idle"]
    /\ UNCHANGED <<answer, speakPc, voice, notices, lock, active>>

SpeakStep(t) ==
    \/ Speak(t) \/ VoiceAvailable(t) \/ Lock(t) \/ StartSay(t) \/ SetActive(t)
    \/ SayEnds(t) \/ ClearActive(t) \/ Unlock(t)

SpeechNext == (\E t \in Speakers : SpeakStep(t)) \/ KillSpeech \/ KillSpeechPID

----------------------------------------------------------------------------

SpeechTypeOK ==
    /\ voice \in {"unchecked", "installed", "missing"} /\ notices \in 0 .. 1
    /\ lock \in Speakers \cup {Nobody} /\ active \in Speakers \cup {Nobody}
    /\ talking \subseteq Speakers

(* Two answers are never spoken at once, however their handlers end.       *)
OneVoice == Cardinality(talking) <= 1

(* Halting a task cuts no other task's answer short, though the process to *)
(* kill is looked up before it is killed.                                  *)
HaltCutsItsOwn == \A t \in Speakers : cutFor[t] \in {Nobody, t, Everyone}

(* An answer of the secret lane is said aloud only if the configuration    *)
(* allows it, also when speech was asked for.                              *)
QuietOnSecret == \A t \in talking : answer[t].lane = "secret" => SpeakSecretLane

(* An answer that waits for its turn gets it or is given up: whatever      *)
(* happens to the one before, the mutex is freed.                          *)
EveryAnswerHasItsTurn == \A t \in Speakers : At(t, "queue") ~> At(t, "over")

\* The safety part: one voice at a time, a halt silences its own task only, a
\* secret answer is not spoken.
TurnsAreKept == OneVoice /\ HaltCutsItsOwn /\ QuietOnSecret

\* The speaker's promise: turns are kept, and every answer gets its own.
SpeechTakesTurns == [](SpeechTypeOK /\ TurnsAreKept) /\ EveryAnswerHasItsTurn
=============================================================================
