-------------------------- MODULE CalculaterProofs --------------------------
(* The arithmetic and the main loop of the calculater, for every input. *)
EXTENDS Calculater, TLAPS

\* atoi gives an int, the parts of a text are texts.
InputOK ==
  /\ INT_MAX \in Nat \ {0}
  /\ Nothing \notin Texts
  /\ \A t \in Texts : /\ Number(t) \in Ints
                      /\ Start(t) \in Texts
                      /\ Rest(t) \in Texts \union {Nothing}

\* What is left of a line was read before the input ended.
RestOK == rest # Nothing => ~eof

\* The first number is that of the text that the second read may leave in buff.
FirstOK == pc = "second" => first_number = Number(buff)

IInv == TypeOK /\ RestOK /\ FirstOK /\ ShowsTheResult /\ EndsOnlyByCommand

-----------------------------------------------------------------------------
\* Keeping the low bits gives an int, and an int is left as it is.
LEMMA WrapOK ==
  ASSUME InputOK, NEW n \in Int
  PROVE  Wrap(n) \in Ints /\ (n \in Ints => Wrap(n) = n)
  BY DEF InputOK, Wrap, Ints, INT_MIN

\* The test of add.c, which itself never overflows, finds exactly the sums that
\* an int cannot hold (lines 6-8).
THEOREM OverflowTest ==
  ASSUME InputOK, NEW a \in Ints, NEW b \in Ints
  PROVE  /\ Overflows(a, b) <=> a + b \notin Ints
         /\ b > 0 => INT_MAX - b \in Ints
         /\ b < 0 => INT_MIN - b \in Ints
  BY DEF InputOK, Overflows, Ints, INT_MIN

\* Add returns -1 and writes nothing, or 0 and writes the sum.
THEOREM AddCorrect ==
  ASSUME InputOK, NEW a \in Ints, NEW b \in Ints
  PROVE  Add(a, b) = IF a + b \in Ints
                     THEN [ret |-> 0, result |-> a + b]
                     ELSE [ret |-> -1, result |-> result]
<1>1. a + b \in Int
  BY DEF InputOK, Ints, INT_MIN
<1> QED
  BY <1>1, OverflowTest, WrapOK DEF Add

\* Sub and Mult write an int, which is the result if an int can hold it.
THEOREM SubMultCorrect ==
  ASSUME InputOK, NEW a \in Ints, NEW b \in Ints
  PROVE  /\ Sub(a, b).ret = 0 /\ Mult(a, b).ret = 0
         /\ Sub(a, b).result \in Ints /\ Mult(a, b).result \in Ints
         /\ a - b \in Ints => Sub(a, b).result = a - b
         /\ a * b \in Ints => Mult(a, b).result = a * b
<1>1. a - b \in Int /\ a * b \in Int
  BY DEF InputOK, Ints, INT_MIN
<1> QED
  BY <1>1, WrapOK DEF Sub, Mult

-----------------------------------------------------------------------------
\* A read takes a text.
LEMMA FgetsOK ==
  ASSUME InputOK, TypeOK, RestOK, NEW line, Fgets(line)
  PROVE  /\ line \in Texts /\ eof' \in BOOLEAN
         /\ eof' => line = buff /\ rest = Nothing
  BY DEF InputOK, TypeOK, RestOK, Fgets

\* The two reads of numbers.
LEMMA NumberStep ==
  ASSUME InputOK, IInv, NEW line \in Texts, ReadFirst(line) \/ ReadSecond(line)
  PROVE  IInv'
<1>1. /\ line \in Texts /\ eof' \in BOOLEAN
      /\ eof' => line = buff
  BY FgetsOK DEF IInv, ReadFirst, ReadSecond
<1>2. Number(line) \in Ints
  BY DEF InputOK
<1>3. TypeOK'
  BY <1>1, <1>2 DEF IInv, TypeOK, Reads, ReadFirst, ReadSecond
<1>4. RestOK'
  BY DEF RestOK, ReadFirst, ReadSecond
<1>5. ShowsTheResult'
  BY DEF IInv, ShowsTheResult, ReadFirst, ReadSecond
<1>6. EndsOnlyByCommand' /\ FirstOK'
  <2>1. CASE ReadFirst(line)
    BY <2>1 DEF EndsOnlyByCommand, FirstOK, ReadFirst
  <2>2. CASE ReadSecond(line)
    BY <1>1, <2>2 DEF IInv, EndsOnlyByCommand, FirstOK, ReadSecond
  <2> QED
    BY <2>1, <2>2
<1> QED
  BY <1>3, <1>4, <1>5, <1>6 DEF IInv

\* The switch writes ints and shows the result.
LEMMA SwitchOK ==
  ASSUME InputOK, TypeOK, ShowsTheResult, NEW line,
         Switch(Command(buff')), UNCHANGED <<first_number, second_number>>
  PROVE  /\ result' \in Ints /\ result_f' \in Ints \X Ints
         /\ ShowsTheResult'
<1> DEFINE a == first_number
           b == second_number
           op == Command(buff')
<1>0. a \in Ints /\ b \in Ints /\ result \in Ints /\ result_f \in Ints \X Ints
  BY DEF TypeOK
<1> DEFINE Is(says, value) ==
             shown' = [op |-> op, a |-> a, b |-> b, says |-> says, value |-> value]
<1>1. CASE op = 1 /\ Integral(Add(a, b))
  <2>1. CASE a + b \in Ints
    <3>1. Add(a, b) = [ret |-> 0, result |-> a + b]
      BY <1>0, <2>1, AddCorrect
    <3>2. result' = a + b /\ Is("result", <<a + b, 1>>) /\ result_f' = result_f
      BY <1>1, <3>1 DEF Integral, Prints
    <3> QED
      BY <1>0, <1>1, <2>1, <3>2 DEF ShowsTheResult
  <2>2. CASE a + b \notin Ints
    <3>1. Add(a, b) = [ret |-> -1, result |-> result]
      BY <1>0, <2>2, AddCorrect
    <3>2. result' = result /\ Is("overflow", <<result, 1>>)
          /\ result_f' = result_f
      BY <1>1, <3>1 DEF Integral, Prints
    <3> QED
      BY <1>0, <1>1, <2>2, <3>2 DEF ShowsTheResult
  <2> QED
    BY <2>1, <2>2
<1>2. CASE op = 2 /\ Integral(Sub(a, b))
  <2>1. /\ Sub(a, b).ret = 0 /\ Sub(a, b).result \in Ints
        /\ a - b \in Ints => Sub(a, b).result = a - b
    BY <1>0, SubMultCorrect
  <2>2. PICK r \in Ints : r = Sub(a, b).result
    BY <2>1
  <2>3. result' = r /\ Is("result", <<r, 1>>) /\ result_f' = result_f
    BY <1>2, <2>1, <2>2 DEF Integral, Prints
  <2> QED
    BY <1>0, <1>2, <2>1, <2>2, <2>3 DEF ShowsTheResult
<1>3. CASE op = 3 /\ Integral(Mult(a, b))
  <2>1. /\ Mult(a, b).ret = 0 /\ Mult(a, b).result \in Ints
        /\ a * b \in Ints => Mult(a, b).result = a * b
    BY <1>0, SubMultCorrect
  <2>2. PICK r \in Ints : r = Mult(a, b).result
    BY <2>1
  <2>3. result' = r /\ Is("result", <<r, 1>>) /\ result_f' = result_f
    BY <1>3, <2>1, <2>2 DEF Integral, Prints
  <2> QED
    BY <1>0, <1>3, <2>1, <2>2, <2>3 DEF ShowsTheResult
<1>4. CASE op = 4 /\ result_f' = Div(a, b).result
            /\ Prints(Div(a, b), "zero", Div(a, b).result)
            /\ UNCHANGED result
  <2>1. CASE b = 0
    <3>1. Div(a, b) = [ret |-> -1, result |-> result_f]
      BY <2>1 DEF Div
    <3>2. result_f' = result_f /\ Is("zero", result_f)
      BY <1>4, <3>1 DEF Prints
    <3> QED
      BY <1>0, <1>4, <2>1, <3>2 DEF ShowsTheResult
  <2>2. CASE b # 0
    <3>1. Div(a, b) = [ret |-> 0, result |-> <<a, b>>]
      BY <2>2 DEF Div
    <3>2. result_f' = <<a, b>> /\ Is("result", <<a, b>>)
      BY <1>4, <3>1 DEF Prints
    <3> QED
      BY <1>0, <1>4, <2>2, <3>2 DEF ShowsTheResult
  <2> QED
    BY <2>1, <2>2
<1>5. CASE UNCHANGED <<result, result_f, shown>>
  BY <1>0, <1>5 DEF ShowsTheResult
<1> QED
  BY <1>1, <1>2, <1>3, <1>4, <1>5 DEF Switch

\* The read of the command, with the switch.
LEMMA CommandStep ==
  ASSUME InputOK, IInv, NEW line \in Texts, ReadCommand(line)
  PROVE  IInv'
<1>1. /\ eof' \in BOOLEAN
      /\ eof' => line = buff
  BY FgetsOK DEF IInv, ReadCommand
<1>2. buff' \in Texts /\ rest' \in Texts \union {Nothing}
  BY <1>1 DEF InputOK, IInv, TypeOK, ReadCommand
<1>3. /\ result' \in Ints /\ result_f' \in Ints \X Ints
      /\ ShowsTheResult'
  BY SwitchOK DEF IInv, ReadCommand
<1>4. TypeOK'
  BY <1>1, <1>2, <1>3 DEF IInv, TypeOK, Reads, ReadCommand
<1>5. RestOK'
  BY DEF RestOK, ReadCommand
<1>6. EndsOnlyByCommand' /\ FirstOK'
  BY DEF EndsOnlyByCommand, FirstOK, ReadCommand
<1> QED
  BY <1>3, <1>4, <1>5, <1>6 DEF IInv

\* The invariant holds for every input.
THEOREM Invariant ==
  ASSUME InputOK
  PROVE  Spec => []IInv
<1>1. Init => IInv
  <2> SUFFICES ASSUME Init
               PROVE  IInv
    OBVIOUS
  <2>1. 0 \in Ints /\ 1 \in Ints
    BY DEF InputOK, Ints, INT_MIN
  <2>2. TypeOK
    BY <2>1 DEF Init, TypeOK, Reads
  <2>3. RestOK /\ FirstOK /\ EndsOnlyByCommand
    BY DEF Init, RestOK, FirstOK, EndsOnlyByCommand
  <2>4. ShowsTheResult
    <3>1. shown.op = 0
      BY DEF Init
    <3> QED
      BY <3>1 DEF ShowsTheResult
  <2> QED
    BY <2>2, <2>3, <2>4 DEF IInv
<1>2. IInv /\ [Next]_vars => IInv'
  <2>1. CASE UNCHANGED vars
    BY <2>1 DEF vars, IInv, TypeOK, RestOK, FirstOK, ShowsTheResult, EndsOnlyByCommand
  <2> QED
    BY <2>1, NumberStep, CommandStep DEF Next
<1> QED
  BY <1>1, <1>2, PTL DEF Spec

\* What is printed is the result, or the message that there is none (main.c
\* 36-70).
THEOREM ResultsCorrect ==
  ASSUME InputOK
  PROVE  Spec => []ShowsTheResult
<1>1. IInv => ShowsTheResult
  BY DEF IInv
<1> QED
  BY Invariant, <1>1, PTL

\* The program when its input has ended and the text it read last is t.
GoesOn(t) ==
  /\ eof /\ buff = t
  /\ pc \in {"second", "command"} => first_number = Number(t)
  /\ pc = "command" => second_number = Number(t)
  /\ pc = "first" => Command(t) # 0
  /\ pc = "end" => Command(t) = 0

\* A turn of the switch with the command and both numbers taken from one text.
SwitchOn(t) ==
  IF Command(t) \in 1 .. 4
  THEN shown'.op = Command(t) /\ shown'.a = Number(t) /\ shown'.b = Number(t)
  ELSE UNCHANGED shown

\* Nothing replaces the text that the program holds when its input ends: it is
\* the command of every later turn and, from the read that finds the end on, its
\* numbers, for ever unless it begins with a 0 (main.c 20-36, 71-73).
THEOREM EndCorrect ==
  ASSUME InputOK, NEW t \in Texts
  PROVE  Spec => /\ [](eof /\ buff = t => []GoesOn(t))
                 /\ [][eof' => buff' = buff]_vars
                 /\ [][eof /\ buff = t /\ pc = "command" => SwitchOn(t)]_vars
<1>1. IInv /\ eof /\ buff = t => GoesOn(t)
  BY DEF IInv, EndsOnlyByCommand, GoesOn
<1>2. ASSUME IInv, [Next]_vars, eof'
      PROVE  buff' = buff
  <2>1. CASE UNCHANGED vars
    BY <2>1 DEF vars
  <2>2. ASSUME NEW line \in Texts, ReadFirst(line) \/ ReadSecond(line)
        PROVE  buff' = buff
    BY <1>2, <2>2, FgetsOK DEF IInv, ReadFirst, ReadSecond
  <2>3. ASSUME NEW line \in Texts, ReadCommand(line)
        PROVE  buff' = buff
    BY <1>2, <2>3 DEF ReadCommand
  <2> QED
    BY <1>2, <2>1, <2>2, <2>3 DEF Next
<1>3. ASSUME IInv, [Next]_vars, eof
      PROVE  eof'
  <2>1. rest = Nothing
    BY <1>3 DEF IInv, RestOK
  <2> QED
    BY <1>3, <2>1 DEF Next, ReadFirst, ReadSecond, ReadCommand, Fgets, vars
<1>4. IInv /\ [Next]_vars => [eof' => buff' = buff]_vars
  BY <1>2
<1>5. IInv /\ [Next]_vars /\ eof /\ buff = t => (eof /\ buff = t)'
  BY <1>2, <1>3
<1>6. IInv /\ [Next]_vars => [eof /\ buff = t /\ pc = "command" => SwitchOn(t)]_vars
  <2> SUFFICES ASSUME IInv, Next, eof, buff = t, pc = "command"
               PROVE  SwitchOn(t)
    OBVIOUS
  <2>1. PICK line \in Texts : ReadCommand(line)
    BY DEF Next, ReadFirst, ReadSecond
  <2>2. buff' = t
    BY <1>2, <1>3
  <2>3. Switch(Command(t))
    BY <2>1, <2>2 DEF ReadCommand
  <2>4. first_number = Number(t) /\ second_number = Number(t)
    BY DEF IInv, EndsOnlyByCommand
  <2>5. ASSUME NEW r, NEW message, NEW value, Prints(r, message, value)
        PROVE  shown'.op = Command(t) /\ shown'.a = Number(t) /\ shown'.b = Number(t)
    BY <2>2, <2>4, <2>5 DEF Prints
  <2>6. CASE Command(t) \in 1 .. 4
    BY <2>3, <2>5, <2>6 DEF Switch, Integral, SwitchOn
  <2>7. CASE Command(t) \notin 1 .. 4
    BY <2>3, <2>7 DEF Switch, SwitchOn
  <2> QED
    BY <2>6, <2>7
<1> QED
  BY Invariant, <1>1, <1>4, <1>5, <1>6, PTL DEF Spec
=============================================================================
