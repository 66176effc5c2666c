------------------------------ MODULE VirtAt ------------------------------
(***************************************************************************)
(* The virtual AT channel (src/src/demo/onemo_vir_at_demo.c) under its     *)
(* first user, onemo_test_network_config (onemo_network_demo.c).  The task *)
(* virture_at_task appends what the modem says to virt_at_buffer; the main *)
(* task clears the buffer, sends a command and polls the buffer for a      *)
(* string.  Both run at osPriorityNormal and are time sliced, and only the *)
(* appending and the clearing take vir_at_mutex.                           *)
(*                                                                         *)
(* A symbol of the model is a string the program searches for, or a byte.  *)
(***************************************************************************)
EXTENDS Integers, Sequences

CONSTANTS
    Size,        \* symbols the buffer holds (2048 bytes)
    Polls,       \* polls of one onemo_check_at_str (2, 10 or 30)
    CpinTries,   \* attempts to find the SIM card ready (100)
    CeregTries,  \* attempts to find the module registered (30)
    MaxUrc       \* unsolicited bytes the modem sends; bound

ASSUME VirtAtAssumption ==
    {Size, Polls, CpinTries, CeregTries} \subseteq Nat \ {0} /\ MaxUrc \in Nat

Zero == "0"    \* the byte 0
Bang == "!"

\* The commands onemo_test_network_config sends, the strings it looks for one
\* after the other, and how often it starts again.
Steps == << [cmd |-> "CPIN",    wants |-> <<"READY">>,      tries |-> CpinTries],
            [cmd |-> "CFUN",    wants |-> <<"OK">>,         tries |-> 1],
            [cmd |-> "CEREG",   wants |-> <<"1,1", "0,1">>, tries |-> CeregTries],
            [cmd |-> "CGDCONT", wants |-> <<"OK">>,         tries |-> 1],
            [cmd |-> "CGACT",   wants |-> <<"OK">>,         tries |-> 1] >>

\* What the modem may answer to a command.
Answers(cmd) ==
    CASE cmd = "CPIN"  -> {<<"READY", "OK">>, <<"ERROR">>}
      [] cmd = "CEREG" -> {<<"1,1", "OK">>, <<"0,1", "OK">>, <<"0,2", "OK">>}
      [] OTHER         -> {<<"OK">>, <<"ERROR">>}

Symbol == {Zero, Bang, "READY", "OK", "ERROR", "1,1", "0,1", "0,2"}

VARIABLES
    buffer,    \* virt_at_buffer
    len,       \* virt_at_len
    mutex,     \* vir_at_mutex is taken
    signal,    \* signal 0x0004 of virture_at_task is set
    at,        \* what virture_at_task does next
    base,      \* its register: the length before the call
    got,       \* the symbols its current onemo_vir_at_get has returned
    pc,        \* what the main task does next
    job,       \* its step, attempt, string and poll
    i,         \* its index into the buffer
    end,       \* its register: the length it ends the string at
    asked,     \* the modem: commands it has not answered
    out,       \* the modem: symbols that were not read
    urc,       \* the modem: unsolicited bytes it has sent
    accepted,  \* history: commands answered without ERROR
    received   \* history: what was read since the buffer was last emptied

chan == <<buffer, len, mutex>>
modem == <<asked, out, urc, accepted>>
main == <<pc, job, i, end>>
vars == <<chan, signal, at, base, got, main, modem, received>>

VirtAtInit ==
    /\ buffer = [k \in 0 .. Size - 1 |-> Zero] /\ len = 0 /\ mutex = FALSE
    /\ signal = FALSE /\ at = "wait" /\ base = 0 /\ got = << >>
    /\ pc = "clear" /\ job = [step |-> 1, try |-> 1, want |-> 1, poll |-> 0]
    /\ i = 0 /\ end = 0
    /\ asked = << >> /\ out = << >> /\ urc = 0 /\ accepted = {}
    /\ received = << >>
-----------------------------------------------------------------------------
(***************************************************************************)
(* The modem, external: it answers the commands in their order, in pieces, *)
(* and calls onemo_sys_at_callback for each piece.                         *)
(***************************************************************************)
\* onemo_sys_at_callback.
Callback == signal' = TRUE

Answer ==
    /\ asked # << >>
    /\ \E a \in Answers(Head(asked)) :
        /\ out' = out \o a
        /\ accepted' = IF a = <<"ERROR">> THEN accepted ELSE accepted \cup {Head(asked)}
    /\ asked' = Tail(asked)
    /\ Callback
    /\ UNCHANGED <<chan, at, base, got, main, urc, received>>

Unsolicited ==
    /\ urc < MaxUrc /\ urc' = urc + 1
    /\ out' = Append(out, Zero)
    /\ Callback
    /\ UNCHANGED <<chan, at, base, got, main, asked, accepted, received>>
-----------------------------------------------------------------------------
(***************************************************************************)
(* virture_at_task.                                                        *)
(***************************************************************************)
\* Mutant: a full buffer is appended to.
SignalWaitNoReset ==
    /\ at = "wait" /\ signal /\ signal' = FALSE
    /\ at' = "get"
    /\ UNCHANGED <<chan, base, got, main, modem, received>>

\* osSignalWait, and the test of the length, which is not under the mutex.
SignalWait ==
    /\ at = "wait" /\ signal /\ signal' = FALSE
    /\ at' = IF len >= Size THEN "reset" ELSE "get"
    /\ UNCHANGED <<chan, base, got, main, modem, received>>

Reset ==
    /\ at = "reset" /\ at' = "get"
    /\ ~mutex
    /\ len' = 0 /\ received' = << >>
    /\ UNCHANGED <<buffer, mutex, signal, base, got, main, modem>>

\* onemo_vir_at_get has copied count symbols behind the valid ones.
Get ==
    /\ at = "get" /\ at' = "add"
    /\ ~mutex /\ mutex' = TRUE
    /\ \E count \in 0 .. Len(out) :
        /\ count <= Size - len
        /\ count = 0 => out = << >> \/ len = Size
        /\ base' = len
        /\ got' = SubSeq(out, 1, count)
        /\ out' = SubSeq(out, count + 1, Len(out))
        /\ buffer' = [k \in DOMAIN buffer |->
                         IF k - len \in 0 .. count - 1 THEN out[k - len + 1] ELSE buffer[k]]
    /\ UNCHANGED <<len, signal, main, asked, urc, accepted, received>>

\* Whether += reads the length before the call or after it is left open by C.
Add ==
    /\ at = "add" /\ at' = "wait"
    /\ \E old \in {base, len} : len' = old + Len(got)
    /\ received' = received \o got
    /\ base' = 0 /\ got' = << >>
    /\ mutex' = FALSE
    /\ UNCHANGED <<buffer, signal, main, modem>>

AtTask == SignalWait \/ Reset \/ Get \/ Add
-----------------------------------------------------------------------------
(***************************************************************************)
(* The main task.                                                          *)
(***************************************************************************)
Wanted == Steps[job.step].wants[job.want]

\* A failed search: the next string, the next attempt, or the error message.
NextJob ==
    CASE job.want < Len(Steps[job.step].wants) ->
            pc' = "clear" /\ job' = [job EXCEPT !.want = @ + 1, !.poll = 0]
      [] job.want = Len(Steps[job.step].wants) /\ job.try < Steps[job.step].tries ->
            pc' = "clear" /\ job' = [job EXCEPT !.try = @ + 1, !.want = 1, !.poll = 0]
      [] OTHER -> pc' = "error" /\ UNCHANGED job

\* A string that was found: the next step, or "network ready".
NextStep ==
    IF job.step < Len(Steps)
    THEN pc' = "clear" /\ job' = [step |-> job.step + 1, try |-> 1, want |-> 1, poll |-> 0]
    ELSE pc' = "ready" /\ UNCHANGED job

\* Mutant: the buffer is cleared without the mutex.
ClearUnlocked ==
    /\ pc = "clear" /\ pc' = "send"
    /\ len' = 0 /\ received' = << >>
    /\ UNCHANGED <<buffer, mutex, signal, at, base, got, job, i, end, modem>>

\* onemo_clear_virt_at_buffer: the symbols stay, only the length is 0.
Clear ==
    /\ pc = "clear" /\ pc' = "send"
    /\ ~mutex
    /\ len' = 0 /\ received' = << >>
    /\ UNCHANGED <<buffer, mutex, signal, at, base, got, job, i, end, modem>>

Send ==
    /\ pc = "send" /\ pc' = "poll"
    /\ asked' = Append(asked, Steps[job.step].cmd)
    /\ UNCHANGED <<chan, signal, at, base, got, job, i, end, out, urc, accepted, received>>

\* Mutant: the polls are not counted.
PollForever ==
    /\ pc = "poll"
    /\ IF len > 0 THEN pc' = "replace" ELSE pc' = "poll"
    /\ i' = 0
    /\ UNCHANGED <<chan, signal, at, base, got, job, end, modem, received>>

\* onemo_check_at_str: another poll after osDelay, or the end of the polls.
Poll ==
    /\ pc = "poll"
    /\ IF job.poll = Polls THEN NextJob
       ELSE /\ job' = [job EXCEPT !.poll = @ + 1]
            /\ pc' = IF len > 0 THEN "replace" ELSE "poll"
    /\ i' = 0
    /\ UNCHANGED <<chan, signal, at, base, got, end, modem, received>>

\* One turn of the loop that replaces zeros; its end reads the length again.
Replace ==
    /\ pc = "replace"
    /\ IF i < len
       THEN /\ buffer' = [buffer EXCEPT ![i] = IF @ = Zero THEN Bang ELSE @]
            /\ i' = i + 1 /\ UNCHANGED <<pc, end>>
       ELSE pc' = "terminate" /\ end' = len /\ UNCHANGED <<buffer, i>>
    /\ UNCHANGED <<len, mutex, signal, at, base, got, job, modem, received>>

\* virt_at_buffer[virt_at_len] = 0, with the length that was read before.  Of a
\* full buffer it is the byte behind it: the low byte of virt_at_len, which is 2048
\* and keeps its value, or padding.
Terminate ==
    /\ pc = "terminate" /\ pc' = "search"
    /\ buffer' = [k \in DOMAIN buffer |-> IF k = end THEN Zero ELSE buffer[k]]
    /\ i' = 0
    /\ UNCHANGED <<len, mutex, signal, at, base, got, job, end, modem, received>>

\* One step of strstr.  When its zero was overwritten it runs out of the buffer and
\* may find anything there.
Search ==
    /\ pc = "search"
    /\ \/ i < Size /\ buffer[i] = Wanted /\ NextStep /\ UNCHANGED i
       \/ i < Size /\ buffer[i] \notin {Wanted, Zero} /\ i' = i + 1 /\ UNCHANGED <<pc, job>>
       \/ (i < Size => buffer[i] = Zero) /\ pc' = "poll" /\ UNCHANGED <<job, i>>
       \/ i = Size /\ end # Size /\ NextStep /\ UNCHANGED i
    /\ UNCHANGED <<chan, signal, at, base, got, end, modem, received>>

Main == Clear \/ Send \/ Poll \/ Replace \/ Terminate \/ Search

VirtAtNext == Answer \/ Unsolicited \/ AtTask \/ Main

VirtAtSpec == VirtAtInit /\ [][VirtAtNext]_vars

\* The two tasks share a priority and are time sliced; nothing makes the modem answer.
FairVirtAtSpec == VirtAtSpec /\ WF_vars(AtTask) /\ WF_vars(Main)
-----------------------------------------------------------------------------
VirtAtTypeOK ==
    /\ buffer \in [0 .. Size - 1 -> Symbol] /\ len \in 0 .. Size
    /\ {mutex, signal} \subseteq BOOLEAN
    /\ at \in {"wait", "reset", "get", "add"}
    /\ pc \in {"clear", "send", "poll", "replace", "terminate", "search", "ready", "error"}
    /\ i \in 0 .. Size /\ end \in 0 .. Size

\* virt_at_len is the number of symbols read since the buffer was last emptied: a
\* clear is not undone by an append that began before it.
LenIsReceived == len = Len(received)

\* virture_at_task never asks the modem for 0 bytes: a full buffer is emptied before
\* the next read, although the length is tested outside the mutex.
RoomForGet == at = "get" => len < Size

\* onemo_test_network_config returns, whatever the modem does.
SetupEnds == <>(pc \in {"ready", "error"})

\* "将有效长度内所有含0的地方替换成'!'": within the valid length the search changes
\* zeros to '!' and nothing else.  The code does not keep it: what is appended between
\* the read of the length and the store of the zero loses its first byte.
ValidIsReceived ==
    \A k \in 1 .. len : \/ buffer[k - 1] = received[k]
                        \/ received[k] = Zero /\ buffer[k - 1] = Bang

\* "network ready" is printed when the modem has accepted the configuration.  The code
\* does not keep it: the rest of an earlier answer is taken for that of the command.
ReadyMeansConfigured == pc = "ready" => {"CFUN", "CGDCONT", "CGACT"} \subseteq accepted
=============================================================================
