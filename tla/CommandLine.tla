---------------------------- MODULE CommandLine ----------------------------
(***************************************************************************)
(* From the keyboard to argv: the receive FIFO of the UART                 *)
(* (src/lib/uart.c), kgetc_blocking (src/lib/stdio.c), the line reader and *)
(* command loop of the shell (src/shell/shell.c) and strtok with its       *)
(* static pointer (src/lib/string.c).  What the commands do with argv is   *)
(* module Shell.  Characters are their codes, pointers into cmd_buffer are *)
(* indices.                                                                *)
(***************************************************************************)
EXTENDS Integers, Sequences, SequencesExt

CONSTANTS
  MAX_CMD_LEN,
  MAX_ARGS,
  Keys,        \* characters that may arrive
  FIFO_SIZE,   \* of the UART; a character that finds it full is lost
  EXIT         \* the word "exit"

NUL   == 0
BS    == 8
LF    == 10
CR    == 13
SPACE == 32
DEL   == 127

NULL == -1

ASSUME CommandLineConstants ==
  /\ MAX_CMD_LEN \in Nat \ {0, 1}
  /\ MAX_ARGS \in Nat \ {0}
  /\ Keys \subseteq 0 .. 255
  /\ FIFO_SIZE \in Nat \ {0}

VARIABLES
  fifo,          \* received characters, oldest first
  cmd_buffer, i, argv, token, strtok_last,
  at,            \* "prompt", "read", "split", "args", "dispatch" or "exited"
  shown          \* what the screen shows after the prompt

vars == <<fifo, cmd_buffer, i, argv, token, strtok_last, at, shown>>

Positions == 0 .. MAX_CMD_LEN - 1

(* External: a character arrives.                                          *)
Receive(c) ==
  /\ Len(fifo) < FIFO_SIZE
  /\ fifo' = Append(fifo, c)
  /\ UNCHANGED <<cmd_buffer, i, argv, token, strtok_last, at, shown>>

(* svc #0, the prompt, and a cleared buffer.                               *)
Prompt ==
  /\ at = "prompt"
  /\ cmd_buffer' = [p \in Positions |-> NUL]
  /\ i' = 0
  /\ shown' = <<>>
  /\ at' = "read"
  /\ UNCHANGED <<fifo, argv, token, strtok_last>>

(* kgetc_blocking gives the oldest character, a carriage return as a       *)
(* newline; a NUL looks like an empty FIFO, is dropped, and it waits on.   *)
Kgetc == IF Head(fifo) = CR THEN LF ELSE Head(fifo)

(* Mutant: the buffer is filled to its last byte.                          *)
LineLimitFull == MAX_CMD_LEN

(* The reader stops here, to leave room for the terminator.                *)
LineLimit == MAX_CMD_LEN - 1

(* Mutant: only the character the Enter key sends ends a line.             *)
EndsLineCR(c) == c = CR

EndsLine(c) == c \in {CR, LF}

(* Mutant: no terminator.                                                  *)
EndOfLineOpen ==
  /\ at' = IF i = 0 THEN "prompt" ELSE "split"
  /\ UNCHANGED <<cmd_buffer, i>>

(* The terminator, and an empty line is not looked at further.             *)
EndOfLine ==
  /\ cmd_buffer' = [cmd_buffer EXCEPT ![i] = NUL]
  /\ at' = IF i = 0 THEN "prompt" ELSE "split"
  /\ UNCHANGED i

(* A backspace takes the last character back, on the screen too; the       *)
(* buffer keeps it until it is overwritten.                                *)
EraseChar ==
  /\ IF i > 0
     THEN i' = i - 1 /\ shown' = Front(shown)
     ELSE UNCHANGED <<i, shown>>
  /\ UNCHANGED <<cmd_buffer, at>>

StoreChar(c) ==
  /\ cmd_buffer' = [cmd_buffer EXCEPT ![i] = c]
  /\ i' = i + 1
  /\ shown' = Append(shown, c)
  /\ UNCHANGED at

Printable(c) == c \in 32 .. 126

ReadChar ==
  /\ at = "read" /\ i < LineLimit /\ fifo # <<>>
  /\ fifo' = Tail(fifo)
  /\ LET c == Kgetc IN
       \/ EndsLine(c) /\ EndOfLine /\ UNCHANGED shown
       \/ c \in {BS, DEL} /\ EraseChar
       \/ Printable(c) /\ StoreChar(c)
       \/ /\ ~EndsLine(c) /\ c \notin {BS, DEL} /\ ~Printable(c)
          /\ UNCHANGED <<cmd_buffer, i, at, shown>>
  /\ UNCHANGED <<argv, token, strtok_last>>

(* The line is full: it ends here, whatever comes next.                    *)
LineFull ==
  /\ at = "read" /\ i >= LineLimit
  /\ EndOfLine
  /\ UNCHANGED <<fifo, argv, token, strtok_last, shown>>

-----------------------------------------------------------------------------
(* strtok with " ".  FirstAt: the first position from p on with a          *)
(* character that is S.                                                    *)
FirstAt(p, S(_)) ==
  CHOOSE q \in Positions :
    /\ q >= p /\ S(cmd_buffer[q])
    /\ \A r \in p .. q - 1 : ~S(cmd_buffer[r])

Strspn(p)  == FirstAt(p, LAMBDA c : c # SPACE)
Strpbrk(p) == FirstAt(p, LAMBDA c : c \in {SPACE, NUL})

Strtok(str) ==
  LET from  == IF str = NULL THEN strtok_last ELSE str
      start == Strspn(from)
      end   == Strpbrk(start)
  IN
  \/ /\ from = NULL
     /\ token' = NULL
     /\ UNCHANGED <<cmd_buffer, strtok_last>>
  \/ /\ from # NULL /\ cmd_buffer[start] = NUL
     /\ token' = NULL /\ strtok_last' = NULL
     /\ UNCHANGED cmd_buffer
  \/ /\ from # NULL /\ cmd_buffer[start] # NUL
     /\ token' = start
     /\ strtok_last' = IF cmd_buffer[end] = NUL THEN NULL ELSE end + 1
     /\ cmd_buffer' = [cmd_buffer EXCEPT ![end] = NUL]

FirstToken ==
  /\ at = "split"
  /\ Strtok(0)
  /\ argv' = <<>>
  /\ at' = "args"
  /\ UNCHANGED <<fifo, i, shown>>

(* The next token is searched for even if there is no room for it.         *)
NextToken ==
  /\ at = "args" /\ token # NULL /\ Len(argv) < MAX_ARGS
  /\ argv' = Append(argv, token)
  /\ Strtok(NULL)
  /\ UNCHANGED <<fifo, i, at, shown>>

EndOfArgs ==
  /\ at = "args" /\ (token = NULL \/ Len(argv) = MAX_ARGS)
  /\ at' = IF argv = <<>> THEN "prompt" ELSE "dispatch"
  /\ UNCHANGED <<fifo, cmd_buffer, i, argv, token, strtok_last, shown>>

(* The string at p.                                                        *)
StringAt(p) ==
  LET end == FirstAt(p, LAMBDA c : c = NUL)
  IN  [k \in 1 .. end - p |-> cmd_buffer[p + k - 1]]

(* The loop ends with the word exit; every other command returns to it.    *)
Dispatch ==
  /\ at = "dispatch"
  /\ at' = IF StringAt(argv[1]) = EXIT THEN "exited" ELSE "prompt"
  /\ UNCHANGED <<fifo, cmd_buffer, i, argv, token, strtok_last, shown>>

-----------------------------------------------------------------------------
Init ==
  /\ fifo = <<>>
  /\ cmd_buffer = [p \in Positions |-> NUL]
  /\ i = 0 /\ argv = <<>> /\ token = NULL /\ strtok_last = NULL
  /\ at = "prompt" /\ shown = <<>>

Cpu ==
  \/ Prompt \/ ReadChar \/ LineFull \/ FirstToken \/ NextToken \/ EndOfArgs
  \/ Dispatch

Next == Cpu \/ \E c \in Keys : Receive(c)

(* The one core keeps executing; the keyboard owes nothing.                *)
Spec == Init /\ [][Next]_vars /\ WF_vars(Cpu)

-----------------------------------------------------------------------------
(* No index leaves its array.                                              *)
TypeOK ==
  /\ fifo \in Seq(Keys) /\ Len(fifo) <= FIFO_SIZE
  /\ cmd_buffer \in [Positions -> Keys \cup {NUL}]
  /\ i \in Positions
  /\ argv \in Seq(Positions) /\ Len(argv) <= MAX_ARGS
  /\ {token, strtok_last} \subseteq Positions \cup {NULL}
  /\ at \in {"prompt", "read", "split", "args", "dispatch", "exited"}
  /\ shown \in Seq(Keys)

(* The words of a line: its maximal runs without a space, in order.        *)
WordStarts(line) ==
  {s \in DOMAIN line : line[s] # SPACE /\ (s = 1 \/ line[s - 1] = SPACE)}

WordFrom(line, s) ==
  SubSeq(line, s, Max({e \in s .. Len(line) : \A k \in s .. e : line[k] # SPACE}))

Ascending(S) ==
  CHOOSE q \in [1 .. Cardinality(S) -> S] :
    \A j, k \in DOMAIN q : j < k => q[j] < q[k]

Words(line) ==
  LET order == Ascending(WordStarts(line))
  IN  [k \in DOMAIN order |-> WordFrom(line, order[k])]

(* A command gets what the screen shows: argv are the first MAX_ARGS words *)
(* of the line after the prompt, whatever was typed and erased on the way, *)
(* whatever lines came before, and although strtok cuts the line up while  *)
(* argv points into it.                                                    *)
ArgvIsWordsShown ==
  at = "dispatch" =>
    LET words == Words(shown) IN
    /\ Len(argv) = Min({Len(words), MAX_ARGS})
    /\ \A k \in 1 .. Len(argv) : StringAt(argv[k]) = words[k]

(* A line that has been ended is dealt with: the reader gets to the        *)
(* newline, strtok through the line, and the prompt comes back.            *)
LineAnswered ==
  (at = "read" /\ \E k \in DOMAIN fifo : fifo[k] \in {CR, LF})
    ~> at \in {"prompt", "exited"}
=============================================================================
