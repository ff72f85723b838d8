----------------------------- MODULE Calculater -----------------------------
(***************************************************************************)
(* calculater: two numbers and a command are read, line by line, and the   *)
(* result is printed, until the command is 0.                              *)
(* What fgets puts into buff is a member of Texts; atoi and the first      *)
(* character are functions of it.                                          *)
(***************************************************************************)
EXTENDS Integers

CONSTANTS
  Texts,          \* what buff can hold
  Number(_),      \* atoi(buff)
  Command(_),     \* buff[0] - 48
  Start(_),       \* the part of a line that fgets(buff, 3, stdin) takes
  Rest(_),        \* and what it leaves of the line for the next fgets
  Nothing,        \* no part of a line is left
  INT_MAX         \* of limits.h, 2147483647

INT_MIN == -INT_MAX - 1
Ints == INT_MIN .. INT_MAX

VARIABLES
  pc,             \* which of the three fgets is next, or "end"
  rest,           \* what the last command left of its line
  eof,            \* stdin has ended
  buff, first_number, second_number,
  result,         \* the int that Add, Sub and Mult write
  result_f,       \* the double that Div writes: a quotient, as a pair
  shown           \* what was printed last, and for which numbers

vars == <<pc, rest, eof, buff, first_number, second_number, result, result_f,
          shown>>

Reads == {"first", "second", "command"}

TypeOK ==
  /\ pc \in Reads \union {"end"}
  /\ rest \in Texts \union {Nothing}
  /\ eof \in BOOLEAN
  /\ buff \in Texts
  /\ first_number \in Ints
  /\ second_number \in Ints
  /\ result \in Ints
  /\ result_f \in Ints \X Ints

-----------------------------------------------------------------------------
(* lib/: each function gives what it returns and what it writes *)

\* A signed overflow keeps the low bits in every build of the makefiles.
Wrap(n) == ((n - INT_MIN) % (INT_MAX - INT_MIN + 1)) + INT_MIN

Overflows(a, b) ==
  \/ a > 0 /\ b > 0 /\ INT_MAX - b < a
  \/ a < 0 /\ b < 0 /\ INT_MIN - b > a

Add(a, b) == IF Overflows(a, b) THEN [ret |-> -1, result |-> result]
                                ELSE [ret |-> 0, result |-> Wrap(a + b)]

Sub(a, b) == [ret |-> 0, result |-> Wrap(a - b)]

Mult(a, b) == [ret |-> 0, result |-> Wrap(a * b)]

Div(a, b) == IF b = 0 THEN [ret |-> -1, result |-> result_f]
                      ELSE [ret |-> 0, result |-> <<a, b>>]

-----------------------------------------------------------------------------
(* main *)

Init ==
  /\ pc = "first"
  /\ rest = Nothing
  /\ eof = FALSE
  /\ buff \in Texts                         \* not initialized
  /\ first_number \in Ints /\ second_number \in Ints
  /\ result = 0
  /\ result_f = <<0, 1>>
  /\ shown = [op |-> 0, a |-> 0, b |-> 0, says |-> "", value |-> result_f]

\* fgets gives the rest of a line before the next one; at the end of the input
\* it leaves buff as it was, which the program does not notice.
Fgets(line) ==
  IF rest # Nothing THEN line = rest /\ UNCHANGED eof
  ELSE \/ line \in Texts /\ ~eof /\ UNCHANGED eof
       \/ line = buff /\ eof' = TRUE

ReadFirst(line) ==
  /\ pc = "first" /\ pc' = "second"
  /\ Fgets(line) /\ rest' = Nothing
  /\ buff' = line
  /\ first_number' = Number(line)
  /\ UNCHANGED <<second_number, result, result_f, shown>>

ReadSecond(line) ==
  /\ pc = "second" /\ pc' = "command"
  /\ Fgets(line) /\ rest' = Nothing
  /\ buff' = line
  /\ second_number' = Number(line)
  /\ UNCHANGED <<first_number, result, result_f, shown>>

\* The switch.  A message or a value is printed; an int n is the pair <<n, 1>>.
Prints(r, message, value) ==
  shown' = [op |-> Command(buff'), a |-> first_number, b |-> second_number,
            says |-> IF r.ret = -1 THEN message ELSE "result",
            value |-> value]

Integral(r) ==
  /\ result' = r.result
  /\ Prints(r, "overflow", <<r.result, 1>>)
  /\ UNCHANGED result_f

Switch(command_num) ==
  LET a == first_number
      b == second_number
  IN
  \/ command_num = 1 /\ Integral(Add(a, b))
  \/ command_num = 2 /\ Integral(Sub(a, b))
  \/ command_num = 3 /\ Integral(Mult(a, b))
  \/ /\ command_num = 4
     /\ result_f' = Div(a, b).result
     /\ Prints(Div(a, b), "zero", Div(a, b).result)
     /\ UNCHANGED result
  \/ command_num \notin 1 .. 4 /\ UNCHANGED <<result, result_f, shown>>

\* Two characters are read: what a longer line holds beyond them is taken for
\* the next number.
ReadCommand(line) ==
  /\ pc = "command"
  /\ Fgets(line)
  /\ IF eof' THEN buff' = buff /\ rest' = Nothing
             ELSE buff' = Start(line) /\ rest' = Rest(line)
  /\ Switch(Command(buff'))
  /\ pc' = IF Command(buff') = 0 THEN "end" ELSE "first"
  /\ UNCHANGED <<first_number, second_number>>

Next == \E line \in Texts : \/ ReadFirst(line) \/ ReadSecond(line)
                            \/ ReadCommand(line)

Spec == Init /\ [][Next]_vars

-----------------------------------------------------------------------------
\* A sum that is printed is the sum of the numbers, and the message is printed
\* exactly if an int cannot hold it (add.c 6-13); a quotient is that of the
\* numbers, and the message is printed exactly if the divider is 0 (div.c 5-10).
\* Of sub.c and mult.c only this can be said: a result that an int can hold is
\* right.
ShowsTheResult ==
  LET a == shown.a
      b == shown.b
      Shows(n) == shown.says = "result" /\ (n \in Ints => shown.value = <<n, 1>>)
  IN
  /\ shown.op = 1 => IF a + b \in Ints THEN Shows(a + b)
                                        ELSE shown.says = "overflow"
  /\ shown.op = 2 => Shows(a - b)
  /\ shown.op = 3 => Shows(a * b)
  /\ shown.op = 4 => IF b = 0 THEN shown.says = "zero"
                      ELSE shown.says = "result" /\ shown.value = <<a, b>>

\* When the input ends the program does not: the text it read last becomes the
\* first number, the second and the command, and only a command 0 ends it
\* (main.c 20-36, 71-73).
EndsOnlyByCommand ==
  /\ pc = "end" => Command(buff) = 0
  /\ eof /\ pc \in {"second", "command"} => first_number = Number(buff)
  /\ eof /\ pc = "command" => second_number = Number(buff)
  /\ eof /\ pc = "first" => Command(buff) # 0
=============================================================================
