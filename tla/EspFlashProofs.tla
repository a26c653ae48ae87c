--------------------------- MODULE EspFlashProofs ---------------------------
(***************************************************************************)
(* What EspFlash guarantees for every number of parts, blocks and attempts *)
(* and every number of late answers: a part that was verified is in flash, *)
(* a call that reports success has written its parts, and tries and        *)
(* attempts stay within their bounds.                                      *)
(***************************************************************************)
EXTENDS EspFlash, TLAPS

USE FlashAssumption

AnswerType == [to : Commands, good : BOOLEAN]
Task == [call : Calls, skip : BOOLEAN, rom : BOOLEAN, reopens : BOOLEAN, outcome : Outcomes,
         pc : Commands \cup {"connect", "reset", "done"}, sent : BOOLEAN, recover : BOOLEAN,
         part : Parts, try : Nat, block : Blocks, attempt : Nat]

EspTyped ==
  /\ task \in Task
  /\ content \in [Parts -> SUBSET Blocks]
  /\ answers \in Seq(AnswerType)
  /\ verified \subseteq Parts

\* The answers that may be on the line while the host is at a command: its own,
\* and late ones.  The answer to "begin" or "end" is taken when nothing is left
\* behind it, so no answer of an earlier part is there when the MD5 is asked for.
Late(pc) ==
  CASE pc \in {"attach", "baud"} -> {"attach", "baud"}
    [] pc = "check" -> {"attach", "baud", "data", "md5", "check"}
    [] pc = "begin" -> {"attach", "baud", "data", "md5", "check", "begin"}
    [] pc = "data"  -> {"data"}
    [] pc = "end"   -> {"data", "end"}
    [] pc = "md5"   -> {"md5"}
    [] OTHER        -> Commands

Only(q, S) == \A i \in 1..Len(q) : q[i].to \in S
None(q, op) == \A i \in 1..Len(q) : q[i].to # op
AtEnd(q, op) == \A i \in 1..Len(q) : q[i].to = op => i = Len(q)

\* Commands that are sent once, and whose answer comes last.
Once == {"begin", "check", "end", "md5"}
Digests == {"check", "md5"}

LineSound ==
  /\ Only(answers, Late(task.pc))
  /\ task.pc \in Once => AtEnd(answers, task.pc) /\ (task.sent \/ None(answers, task.pc))
  /\ task.pc \in Digests =>
       \A i \in 1..Len(answers) : answers[i] = [to |-> task.pc, good |-> TRUE]
                                    => content[task.part] = Blocks

\* An erase verifies nothing, and nothing else erases.
EraseApart ==
  IF task.call = "erase"
    THEN task.pc \in {"connect", "erase", "done"} /\ ~ task.recover /\ verified = {}
    ELSE task.pc # "erase"

EspInv == EspTyped /\ LineSound /\ EraseApart /\ VerifiedIsImage
-----------------------------------------------------------------------------
(* Lists of answers.                                                        *)

LEMMA EmptyList == <<>> \in Seq(AnswerType) /\ \A S, op : Only(<<>>, S) /\ None(<<>>, op) /\ AtEnd(<<>>, op)
<1>1. Len(<<>>) = 0 /\ <<>> \in Seq(AnswerType)
  OBVIOUS
<1>2. QED
  BY <1>1 DEF Only, None, AtEnd

LEMMA AppendAnswer ==
  ASSUME NEW q \in Seq(AnswerType), NEW e \in AnswerType
  PROVE  /\ Append(q, e) \in Seq(AnswerType)
         /\ \A S : Only(q, S) /\ e.to \in S => Only(Append(q, e), S)
         /\ \A op : None(q, op) => AtEnd(Append(q, e), op)
         /\ \A i \in 1..Len(Append(q, e)) : Append(q, e)[i] = e \/ (i \in 1..Len(q) /\ Append(q, e)[i] = q[i])
<1> DEFINE n == Append(q, e)
<1>1. /\ n \in Seq(AnswerType) /\ Len(n) = Len(q) + 1 /\ n[Len(q) + 1] = e /\ Len(q) \in Nat
      /\ \A i \in 1..Len(q) : n[i] = q[i]
  OBVIOUS
<1> HIDE DEF n
<1>2. \A i \in 1..Len(n) : i \in 1..Len(q) \/ i = Len(q) + 1
  BY <1>1
<1>3. QED
  BY <1>1, <1>2 DEF Only, None, AtEnd, n

LEMMA DropAnswer ==
  ASSUME NEW q \in Seq(AnswerType), q # <<>>
  PROVE  /\ Tail(q) \in Seq(AnswerType) /\ Head(q) \in AnswerType
         /\ \A S : Only(q, S) => Only(Tail(q), S)
         /\ \A op : None(q, op) => None(Tail(q), op)
         /\ \A op : AtEnd(q, op) => AtEnd(Tail(q), op)
         /\ \A op : AtEnd(q, op) /\ Head(q).to = op => Tail(q) = <<>>
         /\ \A i \in 1..Len(Tail(q)) : i + 1 \in 1..Len(q) /\ Tail(q)[i] = q[i + 1]
         /\ 1 \in 1..Len(q) /\ q[1] = Head(q)
<1> DEFINE t == Tail(q)
<1>1. /\ t \in Seq(AnswerType) /\ Len(t) = Len(q) - 1 /\ Len(q) \in Nat \ {0} /\ Head(q) = q[1]
      /\ Head(q) \in AnswerType /\ \A i \in 1..Len(t) : t[i] = q[i + 1]
  OBVIOUS
<1> HIDE DEF t
<1>2. Len(t) = 0 => t = <<>>
  BY <1>1
<1>3. \A i \in 1..Len(t) : i + 1 \in 1..Len(q)
  BY <1>1
<1>4. 1 \in 1..Len(q)
  BY <1>1
<1>5. ASSUME NEW op, AtEnd(q, op), NEW i \in 1..Len(t), t[i].to = op PROVE i = Len(t)
  <2>1. i + 1 \in 1..Len(q) /\ q[i + 1].to = op
    BY <1>1, <1>3, <1>5
  <2>2. i + 1 = Len(q)
    BY <1>5, <2>1 DEF AtEnd
  <2>3. QED
    BY <1>1, <2>2
<1>6. \A op : AtEnd(q, op) /\ Head(q).to = op => t = <<>>
  BY <1>1, <1>2, <1>4 DEF AtEnd
<1>7. QED
  BY <1>1, <1>3, <1>4, <1>5, <1>6 DEF Only, None, AtEnd, t

LEMMA FlushAnswers ==
  ASSUME NEW q \in Seq(AnswerType), NEW n \in 0..Len(q), NEW S, Only(q, S)
  PROVE  SubSeq(q, n + 1, Len(q)) \in Seq(AnswerType) /\ Only(SubSeq(q, n + 1, Len(q)), S)
<1> DEFINE r == SubSeq(q, n + 1, Len(q))
<1>1. Len(q) \in Nat /\ n \in Nat /\ n <= Len(q)
  OBVIOUS
<1>2. /\ r \in Seq(AnswerType) /\ Len(r) = Len(q) - n
      /\ \A i \in 1..Len(r) : r[i] = q[n + i]
  BY <1>1
<1> HIDE DEF r
<1>3. \A i \in 1..Len(r) : n + i \in 1..Len(q)
  BY <1>1, <1>2
<1>4. QED
  BY <1>2, <1>3 DEF Only, r
-----------------------------------------------------------------------------
(* Where the host goes.                                                     *)

LEMMA GotoFields ==
  ASSUME task \in Task, NEW pc \in Commands \cup {"connect", "reset", "done"}, Goto(pc)
  PROVE  /\ task' \in Task /\ task'.pc = pc /\ ~ task'.sent /\ task'.part = task.part
         /\ task'.call = task.call /\ task'.recover = task.recover
  BY DEF Goto, Task

LEMMA FinishFields ==
  ASSUME task \in Task, NEW how \in Outcomes, Finish(how)
  PROVE  /\ task' \in Task /\ task'.pc = "done"
         /\ task'.call = task.call /\ task'.recover = task.recover
  BY DEF Finish, Task, Outcomes

LEMMA StartPartFields ==
  ASSUME task \in Task, NEW p \in Parts, StartPart(p)
  PROVE  task' \in Task /\ task'.pc \in {"check", "begin"} /\ ~ task'.sent /\ task'.call = task.call
<1>1. 1 \in Blocks /\ 1 \in Nat
  BY DEF Blocks
<1>2. QED
  BY <1>1 DEF StartPart, Task, Commands

LEMMA RetryPartFields ==
  ASSUME task \in Task, NEW isStub, RetryPart(isStub)
  PROVE  task' \in Task /\ task'.pc \in {"check", "begin"} /\ ~ task'.sent /\ task'.call = task.call
<1>1. 1 \in Blocks /\ 1 \in Nat
  BY DEF Blocks
<1>2. QED
  BY <1>1 DEF RetryPart, Task, Commands

LEMMA PartDoneFields ==
  ASSUME task \in Task, PartDone
  PROVE  task' \in Task /\ task'.pc \in {"check", "begin", "reset"} /\ ~ task'.sent /\ task'.call = task.call
<1>1. CASE task.part = NParts \/ task.call = "image"
  BY <1>1, GotoFields DEF PartDone
<1>2. CASE ~ (task.part = NParts \/ task.call = "image")
  <2>1. task.part + 1 \in Parts
    BY <1>2 DEF Task, Parts
  <2>2. QED
    BY <1>2, <2>1, StartPartFields DEF PartDone
<1>3. QED
  BY <1>1, <1>2

LEMMA FailPartFields ==
  ASSUME task \in Task, FailPart
  PROVE  task' \in Task /\ task'.pc \in {"connect", "done"} /\ task'.call = task.call
<1>1. CASE task.try < PartAttempts /\ task.call = "images"
  <2>1. task.try + 1 \in Nat /\ 1 \in Nat
    BY DEF Task
  <2>2. task' = [task EXCEPT !.pc = "connect", !.sent = FALSE, !.recover = TRUE,
                             !.try = task.try + 1, !.attempt = 1]
    BY <1>1 DEF FailPart
  <2>3. QED
    BY <2>1, <2>2 DEF Task
<1>2. CASE ~ (task.try < PartAttempts /\ task.call = "images")
  BY <1>2, FinishFields DEF FailPart, Outcomes
<1>3. QED
  BY <1>1, <1>2

\* On to a state where the answers on the line decide nothing, or none of them
\* answers the next command.
LEMMA MovesOn ==
  ASSUME EspInv, task' \in Task, answers' \in Seq(AnswerType), content' = content,
         task'.call = task.call, task.call # "erase", task'.pc # "erase",
         Only(answers', Late(task'.pc)), task'.pc \in Once => None(answers', task'.pc),
         verified' \subseteq Parts, \A p \in verified' : content[p] = Blocks
  PROVE  EspInv'
<1>1. EspTyped'
  BY DEF EspInv, EspTyped
<1>2. LineSound'
  <2>1. task'.pc \in Digests => \A i \in 1..Len(answers') : answers'[i].to # task'.pc
    BY DEF None, Digests, Once
  <2>2. task'.pc \in Once => AtEnd(answers', task'.pc)
    BY DEF None, AtEnd
  <2>3. QED
    BY <2>1, <2>2 DEF LineSound
<1>3. EraseApart' /\ VerifiedIsImage'
  BY DEF EraseApart, VerifiedIsImage
<1>4. QED
  BY <1>1, <1>2, <1>3 DEF EspInv

\* Only grows with the set.
LEMMA OnlyMore ==
  ASSUME NEW q, NEW S, NEW T, Only(q, S), S \subseteq T PROVE Only(q, T)
  BY DEF Only

LEMMA OnlyAny == ASSUME NEW q \in Seq(AnswerType) PROVE Only(q, Commands)
<1>1. \A i \in 1..Len(q) : q[i] \in AnswerType
  OBVIOUS
<1>2. QED
  BY <1>1 DEF Only, AnswerType

\* From the start of a part, or the end of the call, nothing late is mistaken.
LEMMA ToPart ==
  ASSUME NEW q \in Seq(AnswerType), Only(q, {"attach", "baud", "data", "md5"}),
         NEW pc \in {"check", "begin", "reset", "connect", "done"}
  PROVE  Only(q, Late(pc)) /\ (pc \in Once => None(q, pc))
<1>1. {"attach", "baud", "data", "md5"} \subseteq Late(pc)
  BY DEF Late, Commands
<1>2. pc \in Once => None(q, pc)
  BY DEF Once, None, Only
<1>3. QED
  BY <1>1, <1>2, OnlyMore
-----------------------------------------------------------------------------
(* A command.                                                               *)

\* What a command may leave on the line, and in flash.
Replied ==
  \/ answers' = answers
  \/ \E good \in BOOLEAN :
       /\ answers' = Append(answers, [to |-> task.pc, good |-> good])
       /\ task.pc \in Digests /\ good => content[task.part] = Blocks

Written ==
  \/ content' = content
  \/ task.pc = "begin" /\ content' = [content EXCEPT ![task.part] = {}]
  \/ task.pc = "data" /\ content' = [content EXCEPT ![task.part] = @ \cup {task.block}]
  \/ task.pc = "erase" /\ content' = [p \in Parts |-> {}]

LEMMA AnswerReplied ==
  ASSUME NEW op, op = task.pc, NEW good \in BOOLEAN, Answer(op, good),
         task.pc \in Digests /\ good => content[task.part] = Blocks
  PROVE  Replied
  BY DEF Answer, Replied

LEMMA ChipReplies ==
  ASSUME ChipHandles, task.pc \in Commands
  PROVE  Replied /\ Written
<1>1. CASE task.pc = "begin"
  <2>1. content' = [content EXCEPT ![task.part] = {}] /\ Answer("begin", TRUE)
    BY <1>1 DEF ChipHandles
  <2>2. Replied
    BY <1>1, <2>1, AnswerReplied DEF Digests
  <2>3. QED
    BY <1>1, <2>1, <2>2 DEF Written
<1>2. CASE task.pc = "data" /\ chip.part = task.part /\ (stub => chip.run = "stub")
  <2>1. ChipTakesBlock
    BY <1>2 DEF ChipHandles
  <2>2. \E good \in BOOLEAN : Answer("data", good)
    BY <2>1 DEF ChipTakesBlock
  <2>3. Replied
    BY <1>2, <2>2, AnswerReplied DEF Digests
  <2>4. Written
    BY <1>2, <2>1 DEF ChipTakesBlock, Written
  <2>5. QED
    BY <2>3, <2>4
<1>3. CASE task.pc \in {"md5", "check"} /\ chip.run = "stub"
  <2>1. content' = content /\ Answer(task.pc, content[task.part] = Blocks)
    BY <1>3 DEF ChipHandles
  <2>2. PICK good \in BOOLEAN : good = (content[task.part] = Blocks)
    OBVIOUS
  <2>3. Answer(task.pc, good)
    BY <2>1, <2>2
  <2>4. Replied
    BY <2>2, <2>3, AnswerReplied
  <2>5. QED
    BY <2>1, <2>4 DEF Written
<1>4. CASE task.pc = "erase" /\ chip.run = "stub"
  <2>1. content' = [p \in Parts |-> {}] /\ Answer("erase", TRUE)
    BY <1>4 DEF ChipHandles
  <2>2. Replied
    BY <1>4, <2>1, AnswerReplied DEF Digests
  <2>3. QED
    BY <1>4, <2>1, <2>2 DEF Written
<1>5. CASE task.pc = "baud"
  <2>1. content' = content /\ Answer("baud", TRUE)
    BY <1>5 DEF ChipHandles
  <2>2. QED
    BY <1>5, <2>1, AnswerReplied DEF Digests, Written
<1>6. CASE task.pc \in {"attach", "end"}
  <2>1. content' = content /\ Answer(task.pc, TRUE)
    BY <1>6 DEF ChipHandles
  <2>2. QED
    BY <1>6, <2>1, AnswerReplied DEF Digests, Written
<1>7. CASE /\ ~ (task.pc = "data" /\ chip.part = task.part /\ (stub => chip.run = "stub"))
           /\ ~ (task.pc \in {"md5", "check", "erase"} /\ chip.run = "stub")
           /\ task.pc \in {"data", "md5", "check", "erase"}
  <2>1. content' = content /\ Answer(task.pc, FALSE)
    BY <1>7 DEF ChipHandles
  <2>2. Replied
    BY <2>1, AnswerReplied
  <2>3. QED
    BY <2>1, <2>2 DEF Written
<1>8. QED
  BY <1>1, <1>2, <1>3, <1>4, <1>5, <1>6, <1>7 DEF Commands

LEMMA SendInv ==
  ASSUME EspInv, SendCommand PROVE EspInv'
<1> DEFINE op == task.pc
<1>1. op \in Commands /\ ~ task.sent /\ task' = [task EXCEPT !.sent = TRUE]
      /\ verified' = IF op = "begin" THEN verified \ {task.part} ELSE verified
  BY DEF SendCommand
<1>2. Replied /\ Written
  BY <1>1, ChipReplies DEF SendCommand, linkVars, Replied, Written
<1>3. /\ task \in Task /\ content \in [Parts -> SUBSET Blocks] /\ answers \in Seq(AnswerType)
      /\ verified \subseteq Parts /\ task.part \in Parts /\ task.block \in Blocks
  BY DEF EspInv, EspTyped, Task
<1>4. /\ task' \in Task /\ task'.pc = op /\ task'.sent /\ task'.part = task.part
      /\ task'.call = task.call /\ task'.recover = task.recover
  BY <1>1, <1>3 DEF Task
<1>5. content' \in [Parts -> SUBSET Blocks]
  BY <1>2, <1>3 DEF Written
<1>6. ASSUME NEW good \in BOOLEAN PROVE [to |-> op, good |-> good] \in AnswerType
  BY <1>1 DEF AnswerType
<1>7. answers' \in Seq(AnswerType)
  BY <1>2, <1>3, <1>6, AppendAnswer DEF Replied
<1>8. EspTyped'
  BY <1>1, <1>3, <1>4, <1>5, <1>7 DEF EspTyped
<1>9. LineSound'
  <2>1. Only(answers, Late(op)) /\ (op \in Once => None(answers, op))
    BY <1>1 DEF EspInv, LineSound
  <2>2. op \in Late(op)
    BY <1>1 DEF Late, Commands
  <2>3. CASE answers' = answers
    <3>1. op \in Once => AtEnd(answers, op)
      BY <2>1 DEF None, AtEnd
    <3>2. op \in Digests => \A i \in 1..Len(answers) : answers[i].to # op
      BY <2>1 DEF Digests, Once, None
    <3>3. QED
      BY <1>4, <2>1, <2>3, <3>1, <3>2 DEF LineSound
  <2>4. ASSUME NEW good \in BOOLEAN, answers' = Append(answers, [to |-> op, good |-> good]),
               op \in Digests /\ good => content[task.part] = Blocks
        PROVE  LineSound'
    <3> DEFINE e == [to |-> op, good |-> good]
    <3>1. e \in AnswerType /\ e.to = op /\ e.good = good
      BY <1>6
    <3> HIDE DEF e
    <3>2. /\ Only(Append(answers, e), Late(op))
          /\ op \in Once => AtEnd(Append(answers, e), op)
          /\ \A i \in 1..Len(Append(answers, e)) :
               Append(answers, e)[i] = e \/ (i \in 1..Len(answers) /\ Append(answers, e)[i] = answers[i])
      BY <1>3, <2>1, <2>2, <3>1, AppendAnswer
    <3>3. answers' = Append(answers, e)
      BY <2>4 DEF e
    <3>4. op \in Digests => content' = content
      BY <1>2 DEF Written, Digests
    <3>5. op \in Digests => \A i \in 1..Len(answers) : answers[i].to # op
      BY <2>1 DEF Digests, Once, None
    <3>6. ASSUME op \in Digests, NEW i \in 1..Len(answers'), answers'[i] = [to |-> op, good |-> TRUE]
          PROVE  content'[task.part] = Blocks
      <4>1. answers'[i] = e
        BY <3>2, <3>3, <3>5, <3>6
      <4>2. good
        BY <3>1, <3>6, <4>1
      <4>3. QED
        BY <2>4, <3>4, <3>6, <4>2
    <3>7. QED
      BY <1>4, <3>2, <3>3, <3>6 DEF LineSound
  <2>5. QED
    BY <1>2, <2>3, <2>4 DEF Replied
<1>10. EraseApart'
  BY <1>1, <1>4 DEF EspInv, EraseApart
<1>11. VerifiedIsImage'
  <2> SUFFICES ASSUME NEW p \in verified' PROVE content'[p] = Blocks
    BY DEF VerifiedIsImage
  <2>1. p \in verified /\ p \in Parts /\ content[p] = Blocks
    BY <1>1, <1>3 DEF EspInv, VerifiedIsImage
  <2>2. op # "erase"
    BY <2>1 DEF EspInv, EraseApart
  <2>3. op = "begin" => p # task.part
    BY <1>1
  <2>4. CASE content' = content
    BY <2>1, <2>4
  <2>5. CASE op = "begin" /\ content' = [content EXCEPT ![task.part] = {}]
    BY <1>3, <2>1, <2>3, <2>5
  <2>6. CASE op = "data" /\ content' = [content EXCEPT ![task.part] = @ \cup {task.block}]
    <3>1. content[p] \cup {task.block} = Blocks
      BY <1>3, <2>1
    <3>2. content'[p] = content[p] \/ content'[p] = content[p] \cup {task.block}
      BY <1>3, <2>1, <2>6
    <3>3. QED
      BY <2>1, <3>1, <3>2
  <2>7. QED
    BY <1>2, <2>2, <2>4, <2>5, <2>6 DEF Written
<1>12. QED
  BY <1>8, <1>9, <1>10, <1>11 DEF EspInv

\* An answer is taken off the line, and nothing else happens.
LEMMA SkipInv ==
  ASSUME EspInv, SkipFrame PROVE EspInv'
<1>1. answers # <<>> /\ answers' = Tail(answers) /\ UNCHANGED <<task, content, verified>>
  BY DEF SkipFrame, histVars
<1>2. answers \in Seq(AnswerType)
  BY DEF EspInv, EspTyped
<1>3. /\ answers' \in Seq(AnswerType)
      /\ \A S : Only(answers, S) => Only(answers', S)
      /\ \A op : None(answers, op) => None(answers', op)
      /\ \A op : AtEnd(answers, op) => AtEnd(answers', op)
      /\ \A i \in 1..Len(answers') : i + 1 \in 1..Len(answers) /\ answers'[i] = answers[i + 1]
  BY <1>1, <1>2, DropAnswer
<1>4. EspTyped' /\ EraseApart' /\ VerifiedIsImage'
  BY <1>1, <1>3 DEF EspInv, EspTyped, EraseApart, VerifiedIsImage
<1>5. task.pc \in Digests =>
        \A i \in 1..Len(answers') : answers'[i] = [to |-> task.pc, good |-> TRUE]
                                      => content[task.part] = Blocks
  BY <1>3 DEF EspInv, LineSound
<1>6. LineSound'
  BY <1>1, <1>3, <1>5 DEF EspInv, LineSound
<1>7. QED
  BY <1>4, <1>6 DEF EspInv

\* The answer to a command sent once leaves an empty line.
LEMMA OnceAnswered ==
  ASSUME EspInv, NEW good \in BOOLEAN, Answered(good), task.pc \in Once
  PROVE  /\ answers' = <<>>
         /\ task.pc \in Digests /\ good => content[task.part] = Blocks
<1>1. /\ answers \in Seq(AnswerType) /\ answers # <<>> /\ answers' = Tail(answers)
      /\ Head(answers) = [to |-> task.pc, good |-> good]
  BY DEF EspInv, EspTyped, Answered
<1>2. AtEnd(answers, task.pc)
  BY DEF EspInv, LineSound
<1>3. Head(answers).to = task.pc /\ 1 \in 1..Len(answers) /\ answers[1] = Head(answers)
  BY <1>1, DropAnswer
<1>4. answers' = <<>>
  BY <1>1, <1>2, <1>3, DropAnswer
<1>5. good => answers[1] = [to |-> task.pc, good |-> TRUE]
  BY <1>1, <1>3
<1>6. QED
  BY <1>3, <1>4, <1>5 DEF EspInv, LineSound

\* An answer, or none in time: what is left was there before.
LEMMA AfterCommand ==
  ASSUME EspInv, NEW op, Succeeds(op) \/ Fails(op)
  PROVE  /\ task.pc = op /\ answers' \in Seq(AnswerType) /\ Only(answers', Late(op))
<1>1. answers \in Seq(AnswerType) /\ Only(answers, Late(task.pc))
  BY DEF EspInv, EspTyped, LineSound
<1>2. task.pc = op
  BY DEF Succeeds, Fails
<1>3. answers' = answers \/ (answers # <<>> /\ answers' = Tail(answers))
  BY DEF Succeeds, Fails, Answered
<1>4. QED
  BY <1>1, <1>2, <1>3, DropAnswer
-----------------------------------------------------------------------------
(* What follows a command.                                                  *)

\* A call that is not an erase goes on, without a part verified.
LEMMA HostGoesOn ==
  ASSUME EspInv, task.pc \notin {"connect", "erase", "done"}, task' \in Task, task'.call = task.call,
         answers' \in Seq(AnswerType), UNCHANGED <<content, verified>>, task'.pc # "erase",
         Only(answers', Late(task'.pc)), task'.pc \in Once => None(answers', task'.pc)
  PROVE  EspInv'
<1>1. task.call # "erase" /\ verified \subseteq Parts /\ \A p \in verified : content[p] = Blocks
  BY DEF EspInv, EraseApart, EspTyped, VerifiedIsImage
<1>2. QED
  BY <1>1, MovesOn

LEMMA AttachInv ==
  ASSUME EspInv, AttachReturns PROVE EspInv'
<1>1. /\ task.pc = "attach" /\ UNCHANGED <<content, verified>>
      /\ answers' \in Seq(AnswerType) /\ Only(answers', {"attach", "baud"})
  BY AfterCommand DEF AttachReturns, histVars, Succeeds, Fails, Late
<1>2. task \in Task
  BY DEF EspInv, EspTyped
<1>3. /\ task' \in Task /\ task'.call = task.call
      /\ task'.pc \in {"attach", "baud", "check", "begin", "done"}
  <2>1. CASE Goto("baud")
    BY <1>2, <2>1, GotoFields DEF Commands
  <2>2. CASE Finish("failed")
    BY <1>2, <2>2, FinishFields DEF Outcomes
  <2>3. CASE task' = [task EXCEPT !.sent = FALSE, !.attempt = 2]
    <3>1. 2 \in Nat
      OBVIOUS
    <3>2. QED
      BY <1>1, <1>2, <2>3, <3>1 DEF Task
  <2>4. CASE RetryPart(stub)
    BY <1>2, <2>4, RetryPartFields
  <2>5. QED
    BY <2>1, <2>2, <2>3, <2>4 DEF AttachReturns
<1>4. Only(answers', {"attach", "baud", "data", "md5"})
  BY <1>1, OnlyMore
<1>5. Only(answers', Late(task'.pc)) /\ (task'.pc \in Once => None(answers', task'.pc))
  <2>1. CASE task'.pc \in {"attach", "baud"}
    BY <1>1, <2>1 DEF Late, Once
  <2>2. CASE task'.pc \in {"check", "begin", "done"}
    BY <1>1, <1>4, <2>2, ToPart
  <2>3. QED
    BY <1>3, <2>1, <2>2
<1>6. QED
  BY <1>1, <1>3, <1>5, HostGoesOn

LEMMA BaudInv ==
  ASSUME EspInv, BaudReturns PROVE EspInv'
<1>1. /\ task.pc = "baud" /\ UNCHANGED <<content, verified>>
      /\ answers' \in Seq(AnswerType) /\ Only(answers', {"attach", "baud"})
  BY AfterCommand DEF BaudReturns, histVars, Succeeds, Fails, Late
<1>2. task \in Task /\ 1 \in Parts
  BY DEF EspInv, EspTyped, Parts
<1>3. task' \in Task /\ task'.call = task.call /\ task'.pc \in {"check", "begin"}
  BY <1>2, RetryPartFields, StartPartFields DEF BaudReturns
<1>4. Only(answers', {"attach", "baud", "data", "md5"})
  BY <1>1, OnlyMore
<1>5. Only(answers', Late(task'.pc)) /\ (task'.pc \in Once => None(answers', task'.pc))
  BY <1>1, <1>3, <1>4, ToPart
<1>6. QED
  BY <1>1, <1>3, <1>5, HostGoesOn

\* A digest that agrees is the only way into "verified".
LEMMA DigestInv ==
  ASSUME EspInv, NEW op \in Digests, Succeeds(op), verified' = verified \cup {task.part}, PartDone,
         UNCHANGED content
  PROVE  EspInv'
<1>1. task.pc = op /\ op \in Once /\ Answered(TRUE)
  BY DEF Succeeds, Digests, Once
<1>2. answers' = <<>> /\ content[task.part] = Blocks
  BY <1>1, OnceAnswered
<1>3. task \in Task /\ task.part \in Parts /\ verified \subseteq Parts /\ task.call # "erase"
      /\ \A p \in verified : content[p] = Blocks
  BY <1>1 DEF EspInv, EspTyped, Task, EraseApart, VerifiedIsImage, Digests
<1>4. task' \in Task /\ task'.pc \in {"check", "begin", "reset"} /\ task'.call = task.call
  BY <1>3, PartDoneFields
<1>5. /\ answers' \in Seq(AnswerType) /\ Only(answers', Late(task'.pc)) /\ None(answers', task'.pc)
  BY <1>2, EmptyList
<1>6. verified' \subseteq Parts /\ \A p \in verified' : content[p] = Blocks
  BY <1>2, <1>3
<1>7. QED
  BY <1>3, <1>4, <1>5, <1>6, MovesOn

LEMMA CheckInv ==
  ASSUME EspInv, CheckReturns PROVE EspInv'
<1>1. CASE Succeeds("check") /\ verified' = verified \cup {task.part} /\ PartDone
  BY <1>1, DigestInv DEF CheckReturns, Digests
<1>2. CASE Fails("check") /\ Goto("begin") /\ UNCHANGED verified
  <2>1. /\ task.pc = "check" /\ answers' \in Seq(AnswerType)
        /\ Only(answers', {"attach", "baud", "data", "md5", "check"})
    BY <1>2, AfterCommand DEF Late
  <2>2. task' \in Task /\ task'.pc = "begin" /\ task'.call = task.call
    BY <1>2, GotoFields DEF EspInv, EspTyped, Commands
  <2>3. Only(answers', Late("begin"))
    <3>1. {"attach", "baud", "data", "md5", "check"} \subseteq Late("begin")
      BY DEF Late
    <3>2. QED
      BY <2>1, <3>1, OnlyMore
  <2>4. None(answers', "begin")
    BY <2>1 DEF Only, None
  <2>5. UNCHANGED content
    BY DEF CheckReturns
  <2>6. QED
    BY <1>2, <2>1, <2>2, <2>3, <2>4, <2>5, HostGoesOn
<1>3. QED
  BY <1>1, <1>2 DEF CheckReturns

\* A failed part: connect anew, or give up.
LEMMA FailInv ==
  ASSUME EspInv, task.pc \notin {"connect", "erase", "done"}, FailPart, answers' \in Seq(AnswerType),
         UNCHANGED <<content, verified>>
  PROVE  EspInv'
<1>1. task' \in Task /\ task'.pc \in {"connect", "done"} /\ task'.call = task.call
  BY FailPartFields DEF EspInv, EspTyped
<1>2. Only(answers', Commands)
  BY OnlyAny
<1>3. Only(answers', Late(task'.pc)) /\ task'.pc \notin Once
  BY <1>1, <1>2 DEF Late, Once
<1>4. QED
  BY <1>1, <1>3, HostGoesOn

\* begin and end have been answered: the line is empty.
LEMMA OnceInv ==
  ASSUME EspInv, NEW op \in {"begin", "end"}, NEW next \in {"data", "md5"},
         (Succeeds(op) /\ Goto(next)) \/ (Fails(op) /\ FailPart), UNCHANGED <<content, verified>>
  PROVE  EspInv'
<1>1. CASE Succeeds(op) /\ Goto(next)
  <2>1. task.pc = op /\ op \in Once /\ Answered(TRUE)
    BY <1>1 DEF Succeeds, Once
  <2>2. answers' = <<>>
    BY <2>1, OnceAnswered
  <2>3. task' \in Task /\ task'.pc = next /\ task'.call = task.call
    BY <1>1, GotoFields DEF EspInv, EspTyped, Commands
  <2>4. /\ answers' \in Seq(AnswerType) /\ Only(answers', Late(next)) /\ None(answers', next)
    BY <2>2, EmptyList
  <2>5. QED
    BY <2>1, <2>3, <2>4, HostGoesOn
<1>2. CASE Fails(op) /\ FailPart
  <2>1. task.pc = op /\ answers' \in Seq(AnswerType)
    BY <1>2, AfterCommand
  <2>2. QED
    BY <1>2, <2>1, FailInv
<1>3. QED
  BY <1>1, <1>2

LEMMA DataInv ==
  ASSUME EspInv, DataReturns PROVE EspInv'
<1>1. task.pc = "data" /\ UNCHANGED <<content, verified>> /\ task \in Task /\ answers \in Seq(AnswerType)
  BY DEF DataReturns, Succeeds, histVars, EspInv, EspTyped
<1>2. Only(answers, {"data"})
  BY <1>1 DEF EspInv, LineSound, Late
<1>3. CASE /\ Succeeds("data")
           /\ IF task.block < NBlocks
                THEN task' = [task EXCEPT !.sent = FALSE, !.block = @ + 1, !.attempt = 1]
                ELSE IF stub THEN Goto("end") ELSE PartDone
  <2>1. answers' \in Seq(AnswerType) /\ Only(answers', {"data"})
    BY <1>3, AfterCommand DEF Late
  <2>2. CASE task.block < NBlocks
    <3>1. task.block + 1 \in Blocks /\ 1 \in Nat
      BY <1>1, <2>2 DEF Task, Blocks
    <3>2. task' = [task EXCEPT !.sent = FALSE, !.block = task.block + 1, !.attempt = 1]
      BY <1>3, <2>2
    <3>3. task' \in Task /\ task'.pc = "data" /\ task'.call = task.call
      BY <1>1, <3>1, <3>2 DEF Task
    <3>4. QED
      BY <1>1, <2>1, <3>3, HostGoesOn DEF Late, Once
  <2>3. CASE ~ (task.block < NBlocks) /\ stub
    <3>1. task' \in Task /\ task'.pc = "end" /\ task'.call = task.call
      BY <1>1, <1>3, <2>3, GotoFields DEF Commands
    <3>2. Only(answers', Late("end")) /\ None(answers', "end")
      BY <2>1 DEF Only, None, Late
    <3>3. QED
      BY <1>1, <2>1, <3>1, <3>2, HostGoesOn
  <2>4. CASE ~ (task.block < NBlocks) /\ ~ stub
    <3>1. task' \in Task /\ task'.pc \in {"check", "begin", "reset"} /\ task'.call = task.call
      BY <1>1, <1>3, <2>4, PartDoneFields
    <3>2. Only(answers', {"attach", "baud", "data", "md5"})
      BY <2>1, OnlyMore
    <3>3. Only(answers', Late(task'.pc)) /\ (task'.pc \in Once => None(answers', task'.pc))
      BY <2>1, <3>1, <3>2, ToPart
    <3>4. QED
      BY <1>1, <2>1, <3>1, <3>3, HostGoesOn
  <2>5. QED
    BY <2>2, <2>3, <2>4
<1>4. CASE /\ \E least \in {0, 1} : FlushInput(least)
           /\ IF task.attempt < BlockAttempts
                THEN task' = [task EXCEPT !.sent = FALSE, !.attempt = @ + 1]
                ELSE FailPart
  <2>1. PICK n \in 0..Len(answers) : answers' = SubSeq(answers, n + 1, Len(answers))
    <3>1. PICK least \in {0, 1} : \E n \in least..Len(answers) : answers' = SubSeq(answers, n + 1, Len(answers))
      BY <1>4 DEF FlushInput
    <3>2. \A n \in least..Len(answers) : n \in 0..Len(answers)
      BY <1>1
    <3>3. QED
      BY <3>1, <3>2
  <2>2. answers' \in Seq(AnswerType) /\ Only(answers', {"data"})
    BY <1>1, <1>2, <2>1, FlushAnswers
  <2>3. CASE task.attempt < BlockAttempts
    <3>1. task.attempt + 1 \in Nat
      BY <1>1 DEF Task
    <3>2. task' = [task EXCEPT !.sent = FALSE, !.attempt = task.attempt + 1]
      BY <1>4, <2>3
    <3>3. task' \in Task /\ task'.pc = "data" /\ task'.call = task.call
      BY <1>1, <3>1, <3>2 DEF Task
    <3>4. QED
      BY <1>1, <2>2, <3>3, HostGoesOn DEF Late, Once
  <2>4. CASE ~ (task.attempt < BlockAttempts)
    BY <1>1, <1>4, <2>2, <2>4, FailInv
  <2>5. QED
    BY <2>3, <2>4
<1>5. QED
  BY <1>3, <1>4 DEF DataReturns

LEMMA Md5Inv ==
  ASSUME EspInv, Md5Returns PROVE EspInv'
<1>1. UNCHANGED content
  BY DEF Md5Returns
<1>2. CASE Succeeds("md5") /\ verified' = verified \cup {task.part} /\ PartDone
  BY <1>1, <1>2, DigestInv DEF Digests
<1>3. CASE Fails("md5") /\ UNCHANGED verified /\ (PartDone \/ FailPart)
  <2>1. task.pc = "md5" /\ answers' \in Seq(AnswerType) /\ Only(answers', {"md5"})
    BY <1>3, AfterCommand DEF Late
  <2>2. CASE FailPart
    BY <1>1, <1>3, <2>1, <2>2, FailInv
  <2>3. CASE PartDone
    <3>1. task' \in Task /\ task'.pc \in {"check", "begin", "reset"} /\ task'.call = task.call
      BY <2>3, PartDoneFields DEF EspInv, EspTyped
    <3>2. Only(answers', {"attach", "baud", "data", "md5"})
      BY <2>1, OnlyMore
    <3>3. Only(answers', Late(task'.pc)) /\ (task'.pc \in Once => None(answers', task'.pc))
      BY <2>1, <3>1, <3>2, ToPart
    <3>4. QED
      BY <1>1, <1>3, <2>1, <3>1, <3>3, HostGoesOn
  <2>4. QED
    BY <1>3, <2>2, <2>3
<1>4. QED
  BY <1>2, <1>3 DEF Md5Returns
-----------------------------------------------------------------------------
(* The beginning and the end of a call.                                     *)

LEMMA EspInitInv == EspInit => EspInv
<1> SUFFICES ASSUME EspInit PROVE EspInv
  OBVIOUS
<1>1. PICK call \in Calls, skip \in BOOLEAN, rom \in BOOLEAN, reopens \in BOOLEAN :
        task = [call |-> call, skip |-> skip, rom |-> rom, reopens |-> reopens, outcome |-> "none",
                pc |-> "connect", sent |-> FALSE, recover |-> FALSE, part |-> 1, try |-> 1,
                block |-> 1, attempt |-> 1]
  BY DEF EspInit, EspStart
<1>2. 1 \in Parts /\ 1 \in Blocks
  BY DEF Parts, Blocks
<1>3. task \in Task /\ task.pc = "connect" /\ ~ task.recover
  BY <1>1, <1>2 DEF Task, Outcomes
<1>4. answers = <<>> /\ verified = {} /\ content \in [Parts -> SUBSET Blocks]
  BY DEF EspInit, EspStart
<1>5. EspTyped
  BY <1>3, <1>4, EmptyList DEF EspTyped
<1>6. LineSound
  BY <1>3, <1>4, EmptyList DEF LineSound, Once, Digests
<1>7. QED
  BY <1>3, <1>4, <1>5, <1>6 DEF EspInv, EraseApart, VerifiedIsImage

\* A reset empties the line.
LEMMA ResetInv ==
  ASSUME EspInv, answers' = <<>>, UNCHANGED <<content, verified>>, task' \in Task,
         task'.call = task.call,
         IF task.call = "erase" THEN task'.pc \in {"erase", "done"} /\ ~ task'.recover
                                ELSE task'.pc # "erase"
  PROVE  EspInv'
<1>1. EspTyped'
  BY EmptyList DEF EspInv, EspTyped
<1>2. LineSound'
  <2>1. Len(answers') = 0
    OBVIOUS
  <2>2. Only(answers', Late(task'.pc)) /\ None(answers', task'.pc) /\ AtEnd(answers', task'.pc)
    BY EmptyList
  <2>3. QED
    BY <2>1, <2>2 DEF LineSound
<1>3. QED
  BY <1>1, <1>2 DEF EspInv, EraseApart, VerifiedIsImage

LEMMA ConnectInv ==
  ASSUME EspInv, Connect \/ ConnectFails PROVE EspInv'
<1>1. task.pc = "connect" /\ answers' = <<>> /\ UNCHANGED <<content, verified>> /\ task \in Task
  BY DEF Connect, ConnectFails, AfterReset, histVars, EspInv, EspTyped
<1>2. task.call = "erase" => ~ task.recover
  BY DEF EspInv, EraseApart
<1>3. CASE Goto(IF task.call = "erase" THEN "erase" ELSE "attach")
  <2>1. /\ task' \in Task /\ task'.call = task.call /\ task'.recover = task.recover
        /\ task'.pc = IF task.call = "erase" THEN "erase" ELSE "attach"
    BY <1>1, <1>3, GotoFields DEF Commands
  <2>2. QED
    BY <1>1, <1>2, <2>1, ResetInv
<1>4. CASE task.recover /\ RetryPart(stub')
  <2>1. task' \in Task /\ task'.call = task.call /\ task'.pc \in {"check", "begin"}
    BY <1>1, <1>4, RetryPartFields
  <2>2. QED
    BY <1>1, <1>2, <1>4, <2>1, ResetInv
<1>5. CASE ~ task.recover /\ Finish("failed")
  <2>1. task' \in Task /\ task'.call = task.call /\ task'.recover = task.recover /\ task'.pc = "done"
    BY <1>1, <1>5, FinishFields DEF Outcomes
  <2>2. QED
    BY <1>1, <1>5, <2>1, ResetInv
<1>6. QED
  BY <1>3, <1>4, <1>5 DEF Connect, ConnectFails

LEMMA FinalInv ==
  ASSUME EspInv, FinalReset PROVE EspInv'
<1>1. task.pc = "reset" /\ answers' = <<>> /\ UNCHANGED <<content, verified>> /\ task \in Task
  BY DEF FinalReset, AfterReset, histVars, EspInv, EspTyped
<1>2. task.call # "erase"
  BY <1>1 DEF EspInv, EraseApart
<1>3. task' \in Task /\ task'.call = task.call /\ task'.pc = "done"
  BY <1>1, FinishFields DEF FinalReset, Outcomes
<1>4. QED
  BY <1>1, <1>2, <1>3, ResetInv

LEMMA EraseInv ==
  ASSUME EspInv, EraseRefused \/ EraseReturns PROVE EspInv'
<1>1. task.pc = "erase" /\ UNCHANGED <<content, verified>> /\ task \in Task
  BY DEF EraseRefused, EraseReturns, Pos, Succeeds, Fails, linkVars, histVars, EspInv, EspTyped
<1>2. task.call = "erase" /\ ~ task.recover /\ verified = {}
  BY <1>1 DEF EspInv, EraseApart
<1>3. answers' \in Seq(AnswerType)
  <2>1. answers \in Seq(AnswerType)
    BY DEF EspInv, EspTyped
  <2>2. CASE EraseRefused
    BY <2>1, <2>2 DEF EraseRefused, linkVars
  <2>3. CASE EraseReturns
    BY <2>3, AfterCommand DEF EraseReturns
  <2>4. QED
    BY <2>2, <2>3
<1>4. /\ task' \in Task /\ task'.call = task.call /\ task'.recover = task.recover /\ task'.pc = "done"
  BY <1>1, FinishFields DEF EraseRefused, EraseReturns, Outcomes
<1>5. Only(answers', Late("done"))
  BY <1>3, OnlyAny DEF Late
<1>6. QED
  BY <1>1, <1>2, <1>3, <1>4, <1>5 DEF EspInv, EspTyped, LineSound, EraseApart, VerifiedIsImage, Once, Digests

LEMMA EspQuiet ==
  ASSUME EspInv, UNCHANGED <<task, content, answers, verified>> PROVE EspInv'
<1>1. EspTyped' /\ EraseApart' /\ VerifiedIsImage'
  BY DEF EspInv, EspTyped, EraseApart, VerifiedIsImage
<1>2. LineSound'
  BY DEF EspInv, LineSound
<1>3. QED
  BY <1>1, <1>2 DEF EspInv

LEMMA EspInvStep == EspInv /\ [EspNext]_espVars => EspInv'
<1> SUFFICES ASSUME EspInv, [EspNext]_espVars PROVE EspInv'
  OBVIOUS
<1>1. CASE Connect \/ ConnectFails
  BY <1>1, ConnectInv
<1>2. CASE SendCommand \/ SkipFrame
  BY <1>2, SendInv, SkipInv
<1>3. CASE TimePassesBy \/ UNCHANGED espVars
  BY <1>3, EspQuiet DEF TimePassesBy, linkVars, histVars, espVars
<1>4. CASE AttachReturns \/ BaudReturns \/ CheckReturns
  BY <1>4, AttachInv, BaudInv, CheckInv
<1>5. CASE BeginReturns
  BY <1>5, OnceInv DEF BeginReturns, histVars
<1>6. CASE DataReturns \/ Md5Returns
  BY <1>6, DataInv, Md5Inv
<1>7. CASE EndReturns
  BY <1>7, OnceInv DEF EndReturns, histVars
<1>8. CASE EraseRefused \/ EraseReturns \/ FinalReset
  BY <1>8, EraseInv, FinalInv
<1>9. QED
  BY <1>1, <1>2, <1>3, <1>4, <1>5, <1>6, <1>7, <1>8 DEF EspNext

\* flasher.go verifyMD5: what the host has verified is in flash, whatever was lost,
\* late or sent twice: when the MD5 of a part is asked for, nothing late is left on
\* the line that could be taken for the answer.
THEOREM FlashVerified == EspSpec => []VerifiedIsImage
<1>1. EspInv => VerifiedIsImage
  BY DEF EspInv
<1>2. QED
  BY <1>1, EspInitInv, EspInvStep, PTL DEF EspSpec
-----------------------------------------------------------------------------
(* A call that reports success has written its parts.  A block that is sent once *)
(* finds the loader where the host is, as long as no block of the part was sent   *)
(* again: then nothing late is on the line, and an answer means that the loader   *)
(* wrote the block.                                                               *)

Chip == [run : {"app", "rom", "stub"}, part : Nat, next : Nat, whole : BOOLEAN]
Good(p) == content[p] = Blocks \/ p \in resent
Asked == IF task.call = "image" THEN {1} ELSE Parts

\* No block of the part was sent again, and this one is not about to be.
FreshPart == task.pc = "data" /\ task.attempt = 1 /\ task.part \notin resent

InStep ==
  FreshPart =>
    /\ chip.part = task.part /\ chip.whole /\ 1..task.block - 1 \subseteq content[task.part]
    /\ ~ task.sent => chip.next = task.block /\ answers = <<>>
    /\ task.sent => \/ answers = <<>>
                    \/ /\ Len(answers) = 1
                       /\ answers[1].good => chip.next = task.block + 1 /\ task.block \in content[task.part]

ResentSeen == task.pc = "data" /\ task.sent /\ task.attempt > 1 => task.part \in resent

\* "begin" starts with the first block, and its answer says that the loader does too.
Begun ==
  task.pc \in {"check", "begin"} =>
    /\ task.block = 1 /\ task.attempt = 1
    /\ task.pc = "begin" =>
         \A i \in 1..Len(answers) : answers[i] = [to |-> "begin", good |-> TRUE]
           => chip.part = task.part /\ chip.next = 1 /\ chip.whole

PartsWritten ==
  /\ \A p \in Parts : p < task.part => Good(p)
  /\ task.pc \in {"end", "md5"} => Good(task.part)
  /\ task.pc = "reset" => \A p \in Asked : Good(p)
  /\ task.outcome = "ok" => task.pc = "done" /\ (task.call # "erase" => \A p \in Asked : Good(p))
  /\ task.call \in {"image", "erase"} => task.part = 1

WroteInv ==
  /\ chip \in Chip /\ task.attempt # 0
  /\ InStep /\ ResentSeen /\ Begun /\ PartsWritten

\* The next command, not sent yet, of the same call.
NextIs(pcs) ==
  /\ task'.pc \in pcs /\ ~ task'.sent /\ task'.call = task.call /\ task'.outcome = task.outcome
  /\ task'.attempt # 0

LEMMA TaskIs ==
  ASSUME EspInv
  PROVE  /\ task \in Task /\ task.part \in Parts /\ task.block \in Blocks /\ task.attempt \in Nat
         /\ task.call \in Calls /\ task.outcome \in Outcomes /\ answers \in Seq(AnswerType)
         /\ content \in [Parts -> SUBSET Blocks]
  BY DEF EspInv, EspTyped, Task

LEMMA GotoGoes ==
  ASSUME task \in Task, task.attempt # 0, NEW pc, Goto(pc)
  PROVE  /\ NextIs({pc}) /\ task'.part = task.part
         /\ task'.block = task.block /\ task'.attempt = task.attempt
  BY DEF Goto, Task, NextIs

LEMMA StartPartGoes ==
  ASSUME task \in Task, NEW p, StartPart(p)
  PROVE  NextIs({"check", "begin"}) /\ task'.part = p /\ task'.block = 1 /\ task'.attempt = 1
  BY DEF StartPart, Task, NextIs

LEMMA RetryPartGoes ==
  ASSUME task \in Task, NEW isStub, RetryPart(isStub)
  PROVE  NextIs({"check", "begin"}) /\ task'.part = task.part /\ task'.block = 1 /\ task'.attempt = 1
  BY DEF RetryPart, Task, NextIs

LEMMA FinishGoes ==
  ASSUME task \in Task, task.attempt # 0, NEW how, Finish(how)
  PROVE  /\ task'.pc = "done" /\ ~ task'.sent /\ task'.call = task.call /\ task'.outcome = how
         /\ task'.part = task.part /\ task'.attempt # 0
  BY DEF Finish, Task

LEMMA FailPartGoes ==
  ASSUME task \in Task, task.attempt # 0, FailPart
  PROVE  /\ task'.pc \in {"connect", "done"} /\ ~ task'.sent /\ task'.call = task.call
         /\ task'.outcome \in {task.outcome, "failed"} /\ task'.part = task.part /\ task'.attempt # 0
<1>1. CASE task.try < PartAttempts /\ task.call = "images"
  <2>1. task' = [task EXCEPT !.pc = "connect", !.sent = FALSE, !.recover = TRUE,
                             !.try = task.try + 1, !.attempt = 1]
    BY <1>1 DEF FailPart
  <2>2. QED
    BY <2>1 DEF Task
<1>2. CASE ~ (task.try < PartAttempts /\ task.call = "images")
  BY <1>2, FinishGoes DEF FailPart
<1>3. QED
  BY <1>1, <1>2

\* To a command other than "data": what has been written stays so.
LEMMA Advances ==
  ASSUME EspInv, EspInv', WroteInv, UNCHANGED <<content, resent>>, chip' \in Chip,
         task'.call = task.call, ~ task'.sent, task'.attempt # 0, task'.pc # "data",
         task'.outcome = "ok" => task'.pc = "done" /\ (task.call # "erase" => \A p \in Asked : Good(p)),
         \/ task'.part \in {1, task.part}
         \/ task'.part = task.part + 1 /\ Good(task.part) /\ task.call \notin {"image", "erase"},
         task'.pc \in {"end", "md5"} => Good(task'.part),
         task'.pc = "reset" => \A p \in Asked : Good(p),
         task'.pc \in {"check", "begin"} => task'.block = 1 /\ task'.attempt = 1
  PROVE  WroteInv'
<1>1. \A p : Good(p)' <=> Good(p)
  BY DEF Good
<1>2. Asked' = Asked /\ task.part \in Parts /\ \A p \in Parts : p \in Nat
  BY TaskIs DEF Asked, Parts
<1>3. \A p \in Parts : p < task'.part => Good(p)
  <2> SUFFICES ASSUME NEW p \in Parts, p < task'.part PROVE Good(p)
    OBVIOUS
  <2>1. CASE task'.part = 1
    BY <1>2, <2>1 DEF Parts
  <2>2. CASE task'.part = task.part
    BY <2>2 DEF WroteInv, PartsWritten
  <2>3. CASE task'.part = task.part + 1 /\ Good(task.part)
    <3>1. p < task.part \/ p = task.part
      BY <1>2, <2>3
    <3>2. QED
      BY <2>3, <3>1 DEF WroteInv, PartsWritten
  <2>4. QED
    BY <2>1, <2>2, <2>3
<1>4. task'.call \in {"image", "erase"} => task'.part = 1
  BY DEF WroteInv, PartsWritten
<1>5. PartsWritten'
  BY <1>1, <1>2, <1>3, <1>4 DEF PartsWritten
<1>6. Begun'
  <2>1. task'.pc = "begin" => \A i \in 1..Len(answers') : answers'[i].to # "begin"
    BY DEF EspInv, LineSound, Once, None
  <2>2. QED
    BY <2>1 DEF Begun
<1>7. InStep' /\ ResentSeen'
  BY DEF InStep, FreshPart, ResentSeen
<1>8. QED
  BY <1>5, <1>6, <1>7 DEF WroteInv

\* After a part that is written: the next one, or the end.
LEMMA PartIsDone ==
  ASSUME EspInv, EspInv', WroteInv, PartDone, Good(task.part), task.pc \notin {"connect", "erase", "done"},
         UNCHANGED <<content, resent, chip>>
  PROVE  WroteInv'
<1>1. /\ task \in Task /\ task.part \in Parts /\ task.call # "erase" /\ task.outcome # "ok"
      /\ task.attempt # 0 /\ chip' \in Chip
  BY TaskIs DEF EspInv, EraseApart, WroteInv, PartsWritten
<1>2. CASE task.part = NParts \/ task.call = "image"
  <2>1. NextIs({"reset"}) /\ task'.part = task.part
    BY <1>1, <1>2, GotoGoes DEF PartDone
  <2>2. \A p \in Asked : Good(p)
    <3>1. CASE task.call = "image"
      BY <3>1 DEF Asked, WroteInv, PartsWritten
    <3>2. CASE task.part = NParts /\ task.call # "image"
      <4>1. \A p \in Parts : p < task.part \/ p = task.part
        BY <1>1, <3>2 DEF Parts
      <4>2. QED
        BY <3>2, <4>1 DEF Asked, WroteInv, PartsWritten
    <3>3. QED
      BY <1>2, <3>1, <3>2
  <2>3. QED
    BY <1>1, <2>1, <2>2, Advances DEF NextIs
<1>3. CASE ~ (task.part = NParts \/ task.call = "image")
  <2>1. NextIs({"check", "begin"}) /\ task'.part = task.part + 1 /\ task'.block = 1 /\ task'.attempt = 1
    BY <1>1, <1>3, StartPartGoes DEF PartDone
  <2>2. QED
    BY <1>1, <1>3, <2>1, Advances DEF NextIs
<1>4. QED
  BY <1>2, <1>3

LEMMA PartFails ==
  ASSUME EspInv, EspInv', WroteInv, FailPart, task.pc # "done", UNCHANGED <<content, resent, chip>>
  PROVE  WroteInv'
<1>1. task \in Task /\ task.attempt # 0 /\ task.outcome # "ok" /\ chip' \in Chip
  BY TaskIs DEF WroteInv, PartsWritten
<1>2. /\ task'.pc \in {"connect", "done"} /\ ~ task'.sent /\ task'.call = task.call
      /\ task'.outcome \in {task.outcome, "failed"} /\ task'.part = task.part /\ task'.attempt # 0
  BY <1>1, FailPartGoes
<1>3. QED
  BY <1>1, <1>2, Advances
-----------------------------------------------------------------------------
LEMMA WroteInit == EspInit => WroteInv
<1> SUFFICES ASSUME EspInit PROVE WroteInv
  OBVIOUS
<1>1. /\ task.outcome = "none" /\ task.pc = "connect" /\ task.part = 1 /\ task.attempt = 1
  BY DEF EspInit, EspStart
<1>2. chip = NoDownload /\ NoDownload \in Chip
  BY DEF EspInit, EspStart, NoDownload, Chip
<1>3. \A p \in Parts : ~ (p < 1)
  BY DEF Parts
<1>4. QED
  BY <1>1, <1>2, <1>3 DEF WroteInv, InStep, FreshPart, ResentSeen, Begun, PartsWritten

LEMMA ConnectWrote == ASSUME EspInv, EspInv', WroteInv, Connect \/ ConnectFails PROVE WroteInv'
<1>1. /\ task.pc = "connect" /\ UNCHANGED <<content, resent>> /\ task \in Task
      /\ task.attempt # 0 /\ task.outcome # "ok"
  BY TaskIs DEF Connect, ConnectFails, histVars, WroteInv, PartsWritten
<1>2. chip' \in Chip
  <2>1. PICK run \in {"app", "rom", "stub"} : chip' = [NoDownload EXCEPT !.run = run]
    BY DEF Connect, ConnectFails, AfterReset
  <2>2. QED
    BY <2>1 DEF NoDownload, Chip
<1>3. CASE Goto(IF task.call = "erase" THEN "erase" ELSE "attach")
  <2>1. PICK pc \in {"erase", "attach"} : Goto(pc)
    BY <1>3
  <2>2. NextIs({pc}) /\ task'.part = task.part
    BY <1>1, <2>1, GotoGoes
  <2>3. QED
    BY <1>1, <1>2, <2>2, Advances DEF NextIs
<1>4. CASE RetryPart(stub')
  <2>1. NextIs({"check", "begin"}) /\ task'.part = task.part /\ task'.block = 1 /\ task'.attempt = 1
    BY <1>1, <1>4, RetryPartGoes
  <2>2. QED
    BY <1>1, <1>2, <2>1, Advances DEF NextIs
<1>5. CASE Finish("failed")
  BY <1>1, <1>2, <1>5, FinishGoes, Advances
<1>6. QED
  BY <1>3, <1>4, <1>5 DEF Connect, ConnectFails

LEMMA AttachWrote == ASSUME EspInv, EspInv', WroteInv, AttachReturns \/ BaudReturns PROVE WroteInv'
<1>1. /\ task.pc \in {"attach", "baud"} /\ UNCHANGED <<content, resent, chip>> /\ task \in Task
      /\ task.attempt # 0 /\ task.outcome # "ok" /\ chip' \in Chip
  BY TaskIs DEF AttachReturns, BaudReturns, Succeeds, Fails, histVars, WroteInv, PartsWritten
<1>2. CASE Goto("baud")
  <2>1. NextIs({"baud"}) /\ task'.part = task.part
    BY <1>1, <1>2, GotoGoes
  <2>2. QED
    BY <1>1, <2>1, Advances DEF NextIs
<1>3. CASE Finish("failed")
  BY <1>1, <1>3, FinishGoes, Advances
<1>4. CASE task' = [task EXCEPT !.sent = FALSE, !.attempt = 2]
  <2>1. /\ task'.pc = task.pc /\ ~ task'.sent /\ task'.call = task.call /\ task'.outcome = task.outcome
        /\ task'.attempt = 2 /\ task'.part = task.part
    BY <1>1, <1>4 DEF Task
  <2>2. QED
    BY <1>1, <2>1, Advances
<1>5. CASE RetryPart(stub)
  <2>1. NextIs({"check", "begin"}) /\ task'.part = task.part /\ task'.block = 1 /\ task'.attempt = 1
    BY <1>1, <1>5, RetryPartGoes
  <2>2. QED
    BY <1>1, <2>1, Advances DEF NextIs
<1>6. CASE StartPart(1)
  <2>1. NextIs({"check", "begin"}) /\ task'.part = 1 /\ task'.block = 1 /\ task'.attempt = 1
    BY <1>1, <1>6, StartPartGoes
  <2>2. QED
    BY <1>1, <2>1, Advances DEF NextIs
<1>7. QED
  BY <1>2, <1>3, <1>4, <1>5, <1>6 DEF AttachReturns, BaudReturns

LEMMA DigestWrote == ASSUME EspInv, EspInv', WroteInv, CheckReturns \/ Md5Returns PROVE WroteInv'
<1>1. /\ task.pc \in {"check", "md5"} /\ UNCHANGED <<content, resent, chip>> /\ task \in Task
      /\ task.attempt # 0 /\ task.outcome # "ok" /\ chip' \in Chip
  BY TaskIs DEF CheckReturns, Md5Returns, Succeeds, Fails, WroteInv, PartsWritten
<1>2. CASE Succeeds("check") /\ PartDone
  <2>1. task.pc \in Once /\ task.pc \in Digests /\ Answered(TRUE)
    BY <1>2 DEF Succeeds, Once, Digests
  <2>2. Good(task.part)
    BY <2>1, OnceAnswered DEF Good
  <2>3. QED
    BY <1>1, <1>2, <2>2, PartIsDone
<1>3. CASE task.pc = "check" /\ Goto("begin")
  <2>1. /\ NextIs({"begin"}) /\ task'.part = task.part
        /\ task'.block = task.block /\ task'.attempt = task.attempt
    BY <1>1, <1>3, GotoGoes
  <2>2. task.block = 1 /\ task.attempt = 1
    BY <1>3 DEF WroteInv, Begun
  <2>3. QED
    BY <1>1, <2>1, <2>2, Advances DEF NextIs
<1>4. CASE task.pc = "md5" /\ PartDone
  <2>1. Good(task.part)
    BY <1>4 DEF WroteInv, PartsWritten
  <2>2. QED
    BY <1>1, <1>4, <2>1, PartIsDone
<1>5. CASE FailPart
  BY <1>1, <1>5, PartFails
<1>6. QED
  BY <1>2, <1>3, <1>4, <1>5 DEF CheckReturns, Md5Returns, Succeeds, Fails

\* The answer to "begin" is the loader's at the first block.
LEMMA BeginWrote == ASSUME EspInv, EspInv', WroteInv, BeginReturns PROVE WroteInv'
<1>1. /\ task.pc = "begin" /\ UNCHANGED <<content, resent, chip>> /\ task \in Task
      /\ task.attempt # 0 /\ task.outcome # "ok" /\ chip' \in Chip
  BY TaskIs DEF BeginReturns, Succeeds, Fails, histVars, WroteInv, PartsWritten
<1>2. CASE Succeeds("begin") /\ Goto("data")
  <2>1. /\ NextIs({"data"}) /\ task'.part = task.part
        /\ task'.block = task.block /\ task'.attempt = task.attempt
    BY <1>1, <1>2, GotoGoes
  <2>2. task.block = 1 /\ task.attempt = 1
    BY <1>1 DEF WroteInv, Begun
  <2>3. answers # <<>> /\ Head(answers) = [to |-> "begin", good |-> TRUE]
    BY <1>1, <1>2 DEF Succeeds, Answered
  <2>4. 1 \in 1..Len(answers) /\ answers[1] = Head(answers)
    BY <2>3, TaskIs, DropAnswer
  <2>5. chip.part = task.part /\ chip.next = 1 /\ chip.whole
    BY <1>1, <2>3, <2>4 DEF WroteInv, Begun
  <2>6. answers' = <<>>
    BY <1>1, <1>2, OnceAnswered DEF Succeeds, Once
  <2>7. 1..task'.block - 1 = {}
    BY <2>1, <2>2
  <2>8. InStep' /\ ResentSeen' /\ Begun'
    BY <1>1, <2>1, <2>2, <2>5, <2>6, <2>7 DEF InStep, FreshPart, ResentSeen, Begun, NextIs
  <2>9. \A p : Good(p)' <=> Good(p)
    BY <1>1 DEF Good
  <2>10. PartsWritten'
    BY <1>1, <2>1, <2>9 DEF WroteInv, PartsWritten, NextIs
  <2>11. QED
    BY <1>1, <2>1, <2>8, <2>10 DEF WroteInv, NextIs
<1>3. CASE FailPart
  BY <1>1, <1>3, PartFails
<1>4. QED
  BY <1>2, <1>3 DEF BeginReturns

LEMMA EndWrote == ASSUME EspInv, EspInv', WroteInv, EndReturns PROVE WroteInv'
<1>1. /\ task.pc = "end" /\ UNCHANGED <<content, resent, chip>> /\ task \in Task
      /\ task.attempt # 0 /\ task.outcome # "ok" /\ chip' \in Chip /\ Good(task.part)
  BY TaskIs DEF EndReturns, Succeeds, Fails, histVars, WroteInv, PartsWritten
<1>2. CASE Goto("md5")
  <2>1. NextIs({"md5"}) /\ task'.part = task.part
    BY <1>1, <1>2, GotoGoes
  <2>2. QED
    BY <1>1, <2>1, Advances DEF NextIs
<1>3. CASE FailPart
  BY <1>1, <1>3, PartFails
<1>4. QED
  BY <1>2, <1>3 DEF EndReturns

\* A block that was answered is in flash, unless one was sent again.
LEMMA BlockWritten ==
  ASSUME EspInv, WroteInv, Succeeds("data")
  PROVE  \/ task.part \in resent
         \/ /\ FreshPart /\ answers' = <<>> /\ chip.next = task.block + 1
            /\ 1..task.block \subseteq content[task.part]
<1> SUFFICES ASSUME task.part \notin resent
             PROVE  /\ FreshPart /\ answers' = <<>> /\ chip.next = task.block + 1
                    /\ 1..task.block \subseteq content[task.part]
  OBVIOUS
<1>1. /\ task.pc = "data" /\ task.sent /\ answers # <<>> /\ answers' = Tail(answers)
      /\ Head(answers) = [to |-> "data", good |-> TRUE] /\ answers \in Seq(AnswerType)
      /\ task.attempt \in Nat /\ task.block \in Blocks
  BY TaskIs DEF Succeeds, Answered
<1>2. FreshPart
  <2>1. task.attempt # 0 /\ ResentSeen
    BY DEF WroteInv
  <2>2. task.attempt = 1
    <3>1. ~ (task.attempt > 1)
      BY <1>1, <2>1 DEF ResentSeen
    <3>2. PICK n \in Nat : n = task.attempt
      BY <1>1
    <3>3. n # 0 /\ ~ (n > 1)
      BY <2>1, <3>1, <3>2
    <3>4. n = 1
      BY <3>3
    <3>5. QED
      BY <3>2, <3>4
  <2>3. QED
    BY <1>1, <2>2 DEF FreshPart
<1>3. answers[1] = Head(answers) /\ Len(Tail(answers)) = Len(answers) - 1 /\ Tail(answers) \in Seq(AnswerType)
  BY <1>1
<1>4. Len(answers) = 1 /\ chip.next = task.block + 1 /\ task.block \in content[task.part]
      /\ 1..task.block - 1 \subseteq content[task.part]
  BY <1>1, <1>2, <1>3 DEF WroteInv, InStep
<1>5. answers' = <<>>
  BY <1>1, <1>3, <1>4
<1>6. \A b \in 1..task.block : b \in 1..task.block - 1 \/ b = task.block
  BY <1>1 DEF Blocks
<1>7. QED
  BY <1>2, <1>4, <1>5, <1>6

LEMMA DataWrote == ASSUME EspInv, EspInv', WroteInv, DataReturns PROVE WroteInv'
<1>1. /\ task.pc = "data" /\ UNCHANGED <<content, resent, chip>> /\ task \in Task
      /\ task.attempt # 0 /\ task.outcome # "ok" /\ chip' \in Chip
      /\ task.attempt \in Nat /\ task.block \in Blocks /\ task.part \in Parts
      /\ content[task.part] \subseteq Blocks
  BY TaskIs DEF DataReturns, Succeeds, histVars, WroteInv, PartsWritten
<1>2. \A p : Good(p)' <=> Good(p)
  BY <1>1 DEF Good
<1>3. CASE Succeeds("data") /\ task.block < NBlocks
           /\ task' = [task EXCEPT !.sent = FALSE, !.block = @ + 1, !.attempt = 1]
  <2>1. /\ NextIs({"data"}) /\ task'.part = task.part /\ task'.block = task.block + 1 /\ task'.attempt = 1
    BY <1>1, <1>3 DEF Task, NextIs
  <2>2. PartsWritten'
    BY <1>1, <1>2, <2>1 DEF WroteInv, PartsWritten, NextIs
  <2>3. InStep'
    <3> SUFFICES ASSUME FreshPart' PROVE /\ chip'.part = task'.part /\ chip'.whole
                                     /\ 1..task'.block - 1 \subseteq content'[task'.part]
                                     /\ chip'.next = task'.block /\ answers' = <<>>
      BY <2>1 DEF InStep, NextIs
    <3>1. task.part \notin resent
      BY <1>1, <2>1 DEF FreshPart
    <3>2. /\ FreshPart /\ answers' = <<>> /\ chip.next = task.block + 1
          /\ 1..task.block \subseteq content[task.part]
      BY <1>3, <3>1, BlockWritten
    <3>3. chip.part = task.part /\ chip.whole
      BY <3>2 DEF WroteInv, InStep
    <3>4. task'.block - 1 = task.block
      BY <1>1, <2>1 DEF Blocks
    <3>5. 1..task'.block - 1 \subseteq content'[task'.part]
      BY <1>1, <2>1, <3>2, <3>4
    <3>6. QED
      BY <1>1, <2>1, <3>2, <3>3, <3>5
  <2>4. ResentSeen' /\ Begun'
    BY <2>1 DEF ResentSeen, Begun, NextIs
  <2>5. QED
    BY <1>1, <2>1, <2>2, <2>3, <2>4 DEF WroteInv, NextIs
<1>4. CASE Succeeds("data") /\ ~ (task.block < NBlocks) /\ (Goto("end") \/ PartDone)
  <2>1. Good(task.part)
    <3>1. 1..task.block = Blocks
      BY <1>1, <1>4 DEF Blocks
    <3>2. QED
      BY <1>1, <1>4, <3>1, BlockWritten DEF Good
  <2>2. CASE Goto("end")
    <3>1. NextIs({"end"}) /\ task'.part = task.part
      BY <1>1, <2>2, GotoGoes
    <3>2. QED
      BY <1>1, <2>1, <3>1, Advances DEF NextIs
  <2>3. CASE PartDone
    BY <1>1, <2>1, <2>3, PartIsDone
  <2>4. QED
    BY <1>4, <2>2, <2>3
<1>5. CASE task' = [task EXCEPT !.sent = FALSE, !.attempt = @ + 1]
  <2>1. /\ NextIs({"data"}) /\ task'.part = task.part /\ task'.attempt = task.attempt + 1
        /\ task'.attempt # 1
    BY <1>1, <1>5 DEF Task, NextIs
  <2>2. PartsWritten'
    BY <1>1, <1>2, <2>1 DEF WroteInv, PartsWritten, NextIs
  <2>3. InStep' /\ ResentSeen' /\ Begun'
    BY <2>1 DEF InStep, FreshPart, ResentSeen, Begun, NextIs
  <2>4. QED
    BY <1>1, <2>1, <2>2, <2>3 DEF WroteInv, NextIs
<1>6. CASE FailPart
  BY <1>1, <1>6, PartFails
<1>7. QED
  BY <1>3, <1>4, <1>5, <1>6 DEF DataReturns

LEMMA EndOfCall == ASSUME EspInv, EspInv', WroteInv, EraseRefused \/ EraseReturns \/ FinalReset PROVE WroteInv'
<1>1. UNCHANGED <<content, resent>> /\ task \in Task /\ task.attempt # 0
  BY TaskIs DEF EraseRefused, EraseReturns, FinalReset, linkVars, histVars, WroteInv
<1>2. CASE EraseRefused \/ EraseReturns
  <2>1. task.pc = "erase" /\ UNCHANGED chip
    BY <1>2 DEF EraseRefused, EraseReturns, linkVars, Pos, Succeeds, Fails
  <2>2. task.call = "erase"
    BY <2>1 DEF EspInv, EraseApart
  <2>3. PICK how : Finish(how)
    BY <1>2 DEF EraseRefused, EraseReturns
  <2>4. chip' \in Chip
    BY <2>1 DEF WroteInv
  <2>5. QED
    BY <1>1, <2>2, <2>3, <2>4, FinishGoes, Advances
<1>3. CASE FinalReset
  <2>1. task.pc = "reset" /\ Finish("ok") /\ chip' = [NoDownload EXCEPT !.run = "app"]
    BY <1>3 DEF FinalReset, AfterReset
  <2>2. \A p \in Asked : Good(p)
    BY <2>1 DEF WroteInv, PartsWritten
  <2>3. chip' \in Chip
    BY <2>1 DEF NoDownload, Chip
  <2>4. QED
    BY <1>1, <2>1, <2>2, <2>3, FinishGoes, Advances
<1>4. QED
  BY <1>2, <1>3

\* Nothing that is skipped answers the command.
LEMMA WaitWrote ==
  ASSUME EspInv, WroteInv, SkipFrame \/ TimePassesBy \/ UNCHANGED espVars
  PROVE  WroteInv'
<1>1. UNCHANGED <<task, content, resent, chip>>
  BY DEF SkipFrame, TimePassesBy, espVars, linkVars, histVars
<1>2. PartsWritten' /\ ResentSeen'
  BY <1>1 DEF WroteInv, PartsWritten, Good, Asked, ResentSeen
<1>3. CASE UNCHANGED answers
  BY <1>1, <1>2, <1>3 DEF WroteInv, InStep, FreshPart, Begun
<1>4. CASE SkipFrame
  <2>1. /\ answers # <<>> /\ answers' = Tail(answers) /\ answers \in Seq(AnswerType) /\ Head(answers).to # task.pc
    BY <1>4, TaskIs DEF SkipFrame
  <2>2. /\ 1 \in 1..Len(answers) /\ answers[1] = Head(answers)
        /\ \A i \in 1..Len(answers') : i + 1 \in 1..Len(answers) /\ answers'[i] = answers[i + 1]
    BY <2>1, DropAnswer
  <2>3. task.pc # "data"
    BY <2>1, <2>2 DEF EspInv, LineSound, Late, Only
  <2>4. InStep'
    BY <1>1, <2>3 DEF InStep, FreshPart
  <2>5. Begun'
    BY <1>1, <2>2 DEF WroteInv, Begun
  <2>6. QED
    BY <1>1, <1>2, <2>4, <2>5 DEF WroteInv
<1>5. QED
  BY <1>3, <1>4 DEF TimePassesBy, espVars, linkVars

\* What the loader does with a block that is in step.
LEMMA SendInStep ==
  ASSUME EspInv, WroteInv, SendCommand, FreshPart
  PROVE  /\ chip'.part = task.part /\ chip'.whole /\ 1..task.block - 1 \subseteq content'[task.part]
         /\ \/ answers' = <<>>
            \/ /\ Len(answers') = 1
               /\ answers'[1].good => chip'.next = task.block + 1 /\ task.block \in content'[task.part]
<1>1. /\ task.pc = "data" /\ ~ task.sent /\ answers = <<>> /\ chip \in Chip /\ task.part \in Parts
      /\ chip.part = task.part /\ chip.whole /\ chip.next = task.block
      /\ 1..task.block - 1 \subseteq content[task.part] /\ content \in [Parts -> SUBSET Blocks]
  BY TaskIs DEF WroteInv, InStep, FreshPart, SendCommand
<1>2. \A e : Append(<<>>, e) = <<e>> /\ Len(<<e>>) = 1 /\ <<e>>[1] = e
  OBVIOUS
<1>3. CASE UNCHANGED linkVars
  BY <1>1, <1>3 DEF linkVars
<1>4. CASE ChipTakesBlock
  <2>1. /\ chip' = [chip EXCEPT !.next = @ + 1]
        /\ content' = [content EXCEPT ![task.part] = @ \cup {task.block}]
        /\ Answer("data", TRUE)
    BY <1>1, <1>4 DEF ChipTakesBlock
  <2>2. chip'.part = chip.part /\ chip'.whole = chip.whole /\ chip'.next = task.block + 1
    BY <1>1, <2>1 DEF Chip
  <2>3. content'[task.part] = content[task.part] \cup {task.block}
    BY <1>1, <2>1
  <2>4. answers' = <<>> \/ Len(answers') = 1
    BY <1>1, <1>2, <2>1 DEF Answer
  <2>5. QED
    BY <1>1, <2>2, <2>3, <2>4
<1>5. CASE Answer("data", FALSE) /\ UNCHANGED <<chip, content>>
  <2>1. PICK e : e = [to |-> "data", good |-> FALSE]
    OBVIOUS
  <2>2. answers' = <<>> \/ answers' = <<e>>
    BY <1>1, <1>2, <1>5, <2>1 DEF Answer
  <2>3. QED
    BY <1>1, <1>2, <1>5, <2>1, <2>2
<1>6. CASE ChipHandles
  <2>1. CASE stub => chip.run = "stub"
    BY <1>1, <1>4, <1>6, <2>1 DEF ChipHandles
  <2>2. CASE ~ (stub => chip.run = "stub")
    BY <1>1, <1>5, <1>6, <2>2 DEF ChipHandles
  <2>3. QED
    BY <2>1, <2>2
<1>7. QED
  BY <1>3, <1>6 DEF SendCommand

LEMMA SendChip == ASSUME EspInv, WroteInv, SendCommand PROVE chip' \in Chip
<1>1. chip \in Chip /\ task.part \in Parts /\ task.part \in Nat /\ chip.next + 1 \in Nat
  BY TaskIs DEF WroteInv, Chip, Parts
<1>2. CASE UNCHANGED chip
  BY <1>1, <1>2
<1>3. CASE chip' = [chip EXCEPT !.part = task.part, !.next = 1, !.whole = TRUE]
  BY <1>1, <1>3 DEF Chip
<1>4. CASE chip' = [chip EXCEPT !.next = chip.next + 1]
  BY <1>1, <1>4 DEF Chip
<1>5. CASE chip' = [chip EXCEPT !.whole = FALSE]
  BY <1>1, <1>5 DEF Chip
<1>6. CASE ChipHandles
  <2>1. CASE task.pc = "begin"
    BY <1>3, <1>6, <2>1 DEF ChipHandles
  <2>2. CASE task.pc = "data"
    <3>1. CASE ChipTakesBlock
      BY <1>2, <1>4, <1>5, <3>1 DEF ChipTakesBlock
    <3>2. CASE UNCHANGED chip
      BY <1>2, <3>2
    <3>3. QED
      BY <1>6, <2>2, <3>1, <3>2 DEF ChipHandles
  <2>3. CASE task.pc \in Commands \ {"begin", "data"}
    BY <1>2, <1>6, <2>3 DEF ChipHandles, Commands
  <2>4. QED
    BY <2>1, <2>2, <2>3 DEF SendCommand
<1>7. QED
  BY <1>2, <1>6 DEF SendCommand, linkVars

\* The only answer to "begin" on the line is the loader's.
LEMMA SendBegin ==
  ASSUME EspInv, WroteInv, SendCommand, task.pc = "begin",
         NEW i \in 1..Len(answers'), answers'[i] = [to |-> "begin", good |-> TRUE]
  PROVE  chip'.part = task.part /\ chip'.next = 1 /\ chip'.whole
<1>1. /\ answers \in Seq(AnswerType) /\ ~ task.sent /\ chip \in Chip
      /\ \A k \in 1..Len(answers) : answers[k].to # "begin"
  BY TaskIs DEF SendCommand, WroteInv, EspInv, LineSound, Once, None
<1>2. CASE UNCHANGED linkVars
  BY <1>1, <1>2 DEF linkVars
<1>3. CASE chip' = [chip EXCEPT !.part = task.part, !.next = 1, !.whole = TRUE]
  BY <1>1, <1>3 DEF Chip
<1>4. QED
  BY <1>2, <1>3 DEF SendCommand, ChipHandles

LEMMA SendWrote == ASSUME EspInv, EspInv', WroteInv, SendCommand PROVE WroteInv'
<1>1. /\ task.pc \in Commands /\ ~ task.sent /\ task \in Task
      /\ task' = [task EXCEPT !.sent = TRUE] /\ task.outcome # "ok"
      /\ resent' = IF task.pc = "data" /\ task.attempt > 1 THEN resent \cup {task.part} ELSE resent
  BY TaskIs DEF SendCommand, WroteInv, PartsWritten, Commands
<1>2. /\ task'.pc = task.pc /\ task'.sent /\ task'.part = task.part /\ task'.block = task.block
      /\ task'.attempt = task.attempt /\ task'.call = task.call /\ task'.outcome = task.outcome
  BY <1>1 DEF Task
<1>3. /\ content \in [Parts -> SUBSET Blocks] /\ task.part \in Parts /\ task.block \in Blocks
      /\ task.attempt \in Nat /\ task.attempt # 0 /\ chip' \in Chip
  BY TaskIs, SendChip DEF WroteInv
<1>4. Written
  BY <1>1, ChipReplies DEF SendCommand, linkVars, Written
<1>5. ASSUME NEW p \in Parts, Good(p), task.pc = "begin" => p # task.part, task.pc # "erase" PROVE Good(p)'
  <2>1. CASE p \in resent
    BY <1>1, <2>1 DEF Good
  <2>2. CASE content[p] = Blocks
    <3>1. content'[p] = content[p] \/ content'[p] = content[p] \cup {task.block}
      BY <1>3, <1>4, <1>5 DEF Written
    <3>2. QED
      BY <1>3, <2>2, <3>1 DEF Good
  <2>3. QED
    BY <1>5, <2>1, <2>2 DEF Good
<1>6. PartsWritten'
  <2>1. ASSUME NEW p \in Parts, p < task.part PROVE Good(p)'
    <3>1. p # task.part /\ Good(p) /\ task.part # 1
      BY <1>3, <2>1 DEF WroteInv, PartsWritten, Parts
    <3>2. task.pc # "erase"
      BY <3>1 DEF EspInv, EraseApart, WroteInv, PartsWritten
    <3>3. QED
      BY <1>5, <3>1, <3>2
  <2>2. task.pc \in {"end", "md5"} => content'[task.part] = Blocks \/ task.part \in resent'
    <3> SUFFICES ASSUME task.pc \in {"end", "md5"} PROVE content'[task.part] = Blocks \/ task.part \in resent'
      OBVIOUS
    <3>1. PICK p \in Parts : p = task.part
      BY <1>3
    <3>2. Good(p)
      BY <3>1 DEF WroteInv, PartsWritten
    <3>3. Good(p)'
      BY <1>5, <3>2
    <3>4. QED
      BY <3>1, <3>3 DEF Good
  <2>3. task.pc # "reset" /\ (task.call \in {"image", "erase"} => task.part = 1)
    BY <1>1 DEF Commands, WroteInv, PartsWritten
  <2>4. QED
    BY <1>1, <1>2, <2>1, <2>2, <2>3 DEF PartsWritten, Good
<1>7. InStep'
  <2> SUFFICES ASSUME FreshPart' PROVE InStep'
    BY DEF InStep
  <2>1. FreshPart
    BY <1>1, <1>2 DEF FreshPart
  <2>2. QED
    BY <1>2, <2>1, SendInStep DEF InStep
<1>8. ResentSeen'
  BY <1>1, <1>2 DEF ResentSeen
<1>9. Begun'
  <2>1. task.pc \in {"check", "begin"} => task.block = 1 /\ task.attempt = 1
    BY DEF WroteInv, Begun
  <2>2. QED
    BY <1>2, <2>1, SendBegin DEF Begun
<1>10. QED
  BY <1>2, <1>3, <1>6, <1>7, <1>8, <1>9 DEF WroteInv

LEMMA WroteStep == EspInv /\ EspInv' /\ WroteInv /\ [EspNext]_espVars => WroteInv'
  BY ConnectWrote, AttachWrote, DigestWrote, BeginWrote, EndWrote, DataWrote, EndOfCall, WaitWrote, SendWrote
     DEF EspNext

\* A call that reports success has written every part it was asked for, but for a part
\* that was not verified and had a block sent twice: the retries of DataReturns and the
\* failures that verifyMD5 overlooks, for every number of parts, blocks and attempts.
THEOREM FlashSuccess == EspSpec => []SuccessIsImage
<1>1. EspInv /\ WroteInv => SuccessIsImage
  <2> SUFFICES ASSUME EspInv, WroteInv, task.outcome = "ok", task.call # "erase",
                      NEW p \in IF task.call = "image" THEN {1} ELSE Parts
               PROVE  content[p] = Blocks \/ (p \in resent /\ p \notin verified)
    BY DEF SuccessIsImage
  <2>1. Good(p)
    BY DEF WroteInv, PartsWritten, Asked
  <2>2. p \in verified => content[p] = Blocks
    BY DEF EspInv, VerifiedIsImage
  <2>3. QED
    BY <2>1, <2>2 DEF Good
<1>2. EspSpec => []EspInv
  BY EspInitInv, EspInvStep, PTL DEF EspSpec
<1>3. QED
  BY <1>1, <1>2, WroteInit, WroteStep, PTL DEF EspSpec
-----------------------------------------------------------------------------
(* Types: the counters stay within their bounds.                            *)

Rates == [port : {"slow", "fast"}, chip : Speeds, noted : {"slow", "fast"}]
Loader == [run : {"app", "rom", "stub"}, part : 0..NParts, next : 1..NBlocks + 1, whole : BOOLEAN]

Tries == task.try \in 1..PartAttempts /\ task.attempt \in 1..BlockAttempts \cup {2}
Link == stub \in BOOLEAN /\ baud \in Rates /\ chip \in Loader
LineCounted == Len(answers) <= MaxAnswers /\ waited \in 0..Deadline /\ resent \subseteq Parts
Bounded == Tries /\ Link /\ LineCounted

LEMMA TriesKept ==
  ASSUME Tries, NEW how,
         \/ task'.try = task.try /\ task'.attempt = task.attempt
         \/ Goto(how) \/ Finish(how) \/ StartPart(how) \/ RetryPart(how) \/ PartDone \/ FailPart,
         task \in Task
  PROVE  Tries'
<1>1. /\ task.try \in 1..PartAttempts /\ task.attempt \in 1..BlockAttempts \cup {2}
      /\ 1 \in 1..PartAttempts /\ 1 \in 1..BlockAttempts
  BY DEF Tries
<1>2. ASSUME task'.try \in {task.try, 1} /\ task'.attempt \in {task.attempt, 1} PROVE Tries'
  BY <1>1, <1>2 DEF Tries
<1>3. CASE \/ task'.try = task.try /\ task'.attempt = task.attempt
           \/ Goto(how) \/ Finish(how) \/ StartPart(how) \/ RetryPart(how)
  <2>1. task'.try \in {task.try, 1} /\ task'.attempt \in {task.attempt, 1}
    BY <1>3 DEF Goto, Finish, StartPart, RetryPart, Task
  <2>2. QED
    BY <1>2, <2>1
<1>4. CASE PartDone
  <2>1. task'.try \in {task.try, 1} /\ task'.attempt \in {task.attempt, 1}
    BY <1>4 DEF PartDone, Goto, StartPart, Task
  <2>2. QED
    BY <1>2, <2>1
<1>5. CASE FailPart
  <2>1. CASE Finish("failed")
    <3>1. task'.try = task.try /\ task'.attempt = task.attempt
      BY <2>1 DEF Finish, Task
    <3>2. QED
      BY <1>2, <3>1
  <2>2. CASE /\ task.try < PartAttempts
             /\ task' = [task EXCEPT !.pc = "connect", !.sent = FALSE, !.recover = TRUE,
                                     !.try = @ + 1, !.attempt = 1]
    <3>1. task'.try = task.try + 1 /\ task'.attempt = 1
      BY <2>2 DEF Task
    <3>2. task.try + 1 \in 1..PartAttempts
      BY <1>1, <2>2
    <3>3. QED
      BY <1>1, <3>1, <3>2 DEF Tries
  <2>3. QED
    BY <1>5, <2>1, <2>2 DEF FailPart
<1>6. QED
  BY <1>3, <1>4, <1>5

LEMMA LinkReset ==
  ASSUME Link, NEW run \in {"app", "rom", "stub"}, NEW reopened \in BOOLEAN, AfterReset(run, reopened),
         stub' \in BOOLEAN
  PROVE  Link' /\ Len(answers') <= MaxAnswers
<1>1. chip' \in Loader
  <2>1. 0 \in 0..NParts /\ 1 \in 1..NBlocks + 1
    OBVIOUS
  <2>2. chip' = [run |-> run, part |-> 0, next |-> 1, whole |-> TRUE]
    BY DEF AfterReset, NoDownload
  <2>3. QED
    BY <2>1, <2>2 DEF Loader
<1>2. baud' \in Rates
  <2>1. PICK speed \in {"slow", "fast"} : baud' = [baud EXCEPT !.port = speed, !.chip = speed]
    BY DEF AfterReset, Link, Rates
  <2>2. QED
    BY <2>1 DEF Link, Rates, Speeds
<1>3. Len(answers') <= MaxAnswers
  <2>1. answers' = <<>> /\ Len(<<>>) = 0
    BY DEF AfterReset
  <2>2. QED
    BY <2>1
<1>4. QED
  BY <1>1, <1>2, <1>3 DEF Link

\* Answers that are read or dropped.
LEMMA FewerAnswers ==
  ASSUME answers \in Seq(AnswerType), Len(answers) <= MaxAnswers,
         \/ UNCHANGED answers
         \/ answers # <<>> /\ answers' = Tail(answers)
         \/ FlushInput(0) \/ (answers # <<>> /\ FlushInput(1))
  PROVE  Len(answers') <= MaxAnswers
<1>1. Len(answers) \in Nat
  OBVIOUS
<1>2. CASE answers # <<>> /\ answers' = Tail(answers)
  <2>1. Len(answers') = Len(answers) - 1
    BY <1>2
  <2>2. QED
    BY <1>1, <2>1
<1>3. CASE FlushInput(0) \/ (answers # <<>> /\ FlushInput(1))
  <2>1. PICK n \in 0..Len(answers) : answers' = SubSeq(answers, n + 1, Len(answers))
    BY <1>1, <1>3 DEF FlushInput
  <2>2. Len(answers') = Len(answers) - n
    BY <1>1, <2>1
  <2>3. QED
    BY <1>1, <2>2
<1>4. QED
  BY <1>2, <1>3

LEMMA OneMoreAnswer ==
  ASSUME answers \in Seq(AnswerType), Len(answers) <= MaxAnswers, NEW op \in Commands, NEW good \in BOOLEAN,
         Answer(op, good)
  PROVE  Len(answers') <= MaxAnswers
<1>1. CASE UNCHANGED answers
  BY <1>1
<1>2. CASE answers' = Append(answers, [to |-> op, good |-> good]) /\ Len(answers) < MaxAnswers
  <2>1. [to |-> op, good |-> good] \in AnswerType /\ Len(answers) \in Nat
    BY DEF AnswerType
  <2>2. Len(answers') = Len(answers) + 1
    BY <1>2, <2>1
  <2>3. QED
    BY <1>2, <2>1, <2>2
<1>3. QED
  BY <1>1, <1>2 DEF Answer

LEMMA ChipBounded ==
  ASSUME EspTyped, Bounded, ChipHandles, task.pc \in Commands
  PROVE  baud' \in Rates /\ chip' \in Loader /\ Len(answers') <= MaxAnswers
<1>1. /\ task.part \in Parts /\ task.block \in Blocks /\ answers \in Seq(AnswerType) /\ Len(answers) <= MaxAnswers
      /\ baud \in Rates /\ chip \in Loader
  BY DEF EspTyped, Task, Bounded, Link, LineCounted
<1>2. \E op \in Commands, good \in BOOLEAN : Answer(op, good)
  <2>1. CASE task.pc = "data" /\ chip.part = task.part /\ (stub => chip.run = "stub")
    BY <2>1 DEF ChipHandles, ChipTakesBlock, Commands
  <2>2. CASE ~ (task.pc = "data" /\ chip.part = task.part /\ (stub => chip.run = "stub"))
    <3>1. (content[task.part] = Blocks) \in BOOLEAN
      OBVIOUS
    <3>2. QED
      BY <2>2, <3>1 DEF ChipHandles, Commands
  <2>3. QED
    BY <2>1, <2>2
<1>3. Len(answers') <= MaxAnswers
  BY <1>1, <1>2, OneMoreAnswer
<1>4. baud' \in Rates
  <2>1. CASE task.pc = "baud"
    <3>1. PICK speed \in Speeds : baud' = [baud EXCEPT !.chip = speed]
      BY <2>1 DEF ChipHandles, Speeds
    <3>2. QED
      BY <1>1, <3>1 DEF Rates
  <2>2. CASE task.pc # "baud"
    BY <1>1, <2>2 DEF ChipHandles
  <2>3. QED
    BY <2>1, <2>2
<1>5. chip' \in Loader
  <2>1. CASE task.pc = "begin"
    <3>1. chip' = [chip EXCEPT !.part = task.part, !.next = 1, !.whole = TRUE]
      BY <2>1 DEF ChipHandles
    <3>2. task.part \in 0..NParts /\ 1 \in 1..NBlocks + 1
      BY <1>1 DEF Parts
    <3>3. QED
      BY <1>1, <3>1, <3>2 DEF Loader
  <2>2. CASE task.pc = "data"
    <3>1. \/ UNCHANGED chip
          \/ chip' = [chip EXCEPT !.whole = FALSE]
          \/ task.block = chip.next /\ chip' = [chip EXCEPT !.next = @ + 1]
      BY <2>2 DEF ChipHandles, ChipTakesBlock
    <3>2. CASE task.block = chip.next /\ chip' = [chip EXCEPT !.next = @ + 1]
      <4>1. chip.next + 1 \in 1..NBlocks + 1
        BY <1>1, <3>2 DEF Blocks
      <4>2. chip' = [chip EXCEPT !.next = chip.next + 1]
        BY <3>2
      <4>3. QED
        BY <1>1, <4>1, <4>2 DEF Loader
    <3>3. QED
      BY <1>1, <3>1, <3>2 DEF Loader
  <2>3. CASE task.pc \notin {"begin", "data"}
    BY <1>1, <2>3 DEF ChipHandles
  <2>4. QED
    BY <2>1, <2>2, <2>3
<1>6. QED
  BY <1>3, <1>4, <1>5

LEMMA SendBounded == ASSUME EspInv, Bounded, SendCommand PROVE Bounded'
<1>1. EspTyped /\ task \in Task
  BY DEF EspInv, EspTyped
<1>2. task.pc \in Commands /\ task' = [task EXCEPT !.sent = TRUE] /\ waited' = 0 /\ UNCHANGED stub
  BY DEF SendCommand
<1>3. Tries'
  <2>1. task'.try = task.try /\ task'.attempt = task.attempt
    BY <1>1, <1>2 DEF Task
  <2>2. QED
    BY <2>1 DEF Bounded, Tries
<1>4. baud' \in Rates /\ chip' \in Loader /\ Len(answers') <= MaxAnswers
  <2>1. CASE ChipHandles
    BY <1>1, <1>2, <2>1, ChipBounded
  <2>2. CASE UNCHANGED linkVars
    BY <2>2 DEF linkVars, Bounded, Link, LineCounted
  <2>3. QED
    BY <2>1, <2>2 DEF SendCommand
<1>5. waited' \in 0..Deadline
  BY <1>2
<1>6. resent' \subseteq Parts
  <2>1. task.part \in Parts /\ resent \subseteq Parts
    BY <1>1 DEF Task, Bounded, LineCounted
  <2>2. resent' \subseteq resent \cup {task.part}
    BY DEF SendCommand
  <2>3. QED
    BY <2>1, <2>2
<1>7. stub' \in BOOLEAN
  BY <1>2 DEF Bounded, Link
<1>8. QED
  BY <1>3, <1>4, <1>5, <1>6, <1>7 DEF Bounded, Link, LineCounted

LEMMA ConnectBounded == ASSUME EspInv, Bounded, Connect \/ ConnectFails PROVE Bounded'
<1>1. task \in Task /\ UNCHANGED <<waited, resent>>
  BY DEF EspInv, EspTyped, Connect, ConnectFails, histVars
<1>2. PICK how : Goto(how) \/ Finish(how) \/ RetryPart(how)
  BY DEF Connect, ConnectFails
<1>3. Tries'
  BY <1>1, <1>2, TriesKept DEF Bounded
<1>4. PICK run \in {"app", "rom", "stub"}, reopened \in BOOLEAN : AfterReset(run, reopened) /\ stub' \in BOOLEAN
  BY DEF Connect, ConnectFails, Bounded, Link
<1>5. Link' /\ Len(answers') <= MaxAnswers
  BY <1>4, LinkReset DEF Bounded
<1>6. QED
  BY <1>1, <1>3, <1>5 DEF Bounded, LineCounted

LEMMA AnswerRead ==
  ASSUME EspInv, Bounded, NEW op, Succeeds(op) \/ Fails(op)
  PROVE  Len(answers') <= MaxAnswers
<1>1. UNCHANGED answers \/ (answers # <<>> /\ answers' = Tail(answers))
  BY DEF Succeeds, Fails, Answered
<1>2. QED
  BY <1>1, FewerAnswers DEF EspInv, EspTyped, Bounded, LineCounted

LEMMA ReturnBounded ==
  ASSUME EspInv, Bounded,
         \/ AttachReturns \/ BaudReturns \/ CheckReturns \/ BeginReturns \/ EndReturns \/ Md5Returns
         \/ EraseReturns
  PROVE  Bounded'
<1>1. task \in Task /\ UNCHANGED <<stub, chip, waited, resent>>
  BY DEF EspInv, EspTyped, AttachReturns, BaudReturns, CheckReturns, BeginReturns, EndReturns, Md5Returns,
         EraseReturns, histVars
<1>2. PICK op : Succeeds(op) \/ Fails(op)
  BY DEF AttachReturns, BaudReturns, CheckReturns, BeginReturns, EndReturns, Md5Returns, EraseReturns
<1>3. Len(answers') <= MaxAnswers
  BY <1>2, AnswerRead
<1>4. baud' \in Rates
  <2>1. CASE BaudReturns
    BY <2>1 DEF BaudReturns, Bounded, Link, Rates
  <2>2. CASE ~ BaudReturns
    BY <2>2 DEF AttachReturns, CheckReturns, BeginReturns, EndReturns, Md5Returns, EraseReturns, Bounded, Link
  <2>3. QED
    BY <2>1, <2>2
<1>5. Tries'
  <2>1. CASE task' = [task EXCEPT !.sent = FALSE, !.attempt = 2]
    BY <1>1, <2>1 DEF Bounded, Tries, Task
  <2>2. CASE ~ (task' = [task EXCEPT !.sent = FALSE, !.attempt = 2])
    <3>1. PICK how : Goto(how) \/ Finish(how) \/ StartPart(how) \/ RetryPart(how) \/ PartDone \/ FailPart
      BY <2>2 DEF AttachReturns, BaudReturns, CheckReturns, BeginReturns, EndReturns, Md5Returns, EraseReturns
    <3>2. QED
      BY <1>1, <3>1, TriesKept DEF Bounded
  <2>3. QED
    BY <2>1, <2>2
<1>6. QED
  BY <1>1, <1>3, <1>4, <1>5 DEF Bounded, Link, LineCounted

LEMMA DataBounded == ASSUME EspInv, Bounded, DataReturns PROVE Bounded'
<1>1. task \in Task /\ answers \in Seq(AnswerType) /\ UNCHANGED <<stub, chip, baud, waited, resent>>
  BY DEF EspInv, EspTyped, DataReturns, histVars
<1>2. Len(answers') <= MaxAnswers
  <2>1. \/ answers # <<>> /\ answers' = Tail(answers)
        \/ FlushInput(0) \/ (answers # <<>> /\ FlushInput(1))
    BY DEF DataReturns, Succeeds, Answered
  <2>2. QED
    BY <1>1, <2>1, FewerAnswers DEF Bounded, LineCounted
<1>3. Tries'
  <2>1. /\ task.try \in 1..PartAttempts /\ task.attempt \in Nat /\ task.attempt # 0
    BY DEF Bounded, Tries
  <2>2. CASE task' = [task EXCEPT !.sent = FALSE, !.block = @ + 1, !.attempt = 1]
    <3>1. task'.try = task.try /\ task'.attempt = 1 /\ 1 \in 1..BlockAttempts
      BY <1>1, <2>2 DEF Task
    <3>2. QED
      BY <2>1, <3>1 DEF Tries
  <2>3. CASE task.attempt < BlockAttempts /\ task' = [task EXCEPT !.sent = FALSE, !.attempt = @ + 1]
    <3>1. task'.try = task.try /\ task'.attempt = task.attempt + 1
      BY <1>1, <2>3 DEF Task
    <3>2. task.attempt + 1 \in 1..BlockAttempts
      BY <2>1, <2>3
    <3>3. QED
      BY <2>1, <3>1, <3>2 DEF Tries
  <2>4. CASE Goto("end") \/ PartDone \/ FailPart
    BY <1>1, <2>4, TriesKept DEF Bounded
  <2>5. QED
    BY <2>2, <2>3, <2>4 DEF DataReturns
<1>4. QED
  BY <1>1, <1>2, <1>3 DEF Bounded, Link, LineCounted

LEMMA EndBounded ==
  ASSUME EspInv, Bounded, EraseRefused \/ FinalReset \/ SkipFrame \/ TimePassesBy \/ UNCHANGED espVars
  PROVE  Bounded'
<1>1. task \in Task /\ answers \in Seq(AnswerType) /\ UNCHANGED <<stub, resent>>
  BY DEF EspInv, EspTyped, EraseRefused, FinalReset, SkipFrame, TimePassesBy, histVars, espVars
<1>2. Tries'
  <2>1. CASE EraseRefused \/ FinalReset
    <3>1. PICK how : Finish(how)
      BY <2>1 DEF EraseRefused, FinalReset
    <3>2. QED
      BY <1>1, <3>1, TriesKept DEF Bounded
  <2>2. CASE SkipFrame \/ TimePassesBy \/ UNCHANGED espVars
    BY <2>2 DEF SkipFrame, TimePassesBy, espVars, Bounded, Tries
  <2>3. QED
    BY <2>1, <2>2
<1>3. waited' \in 0..Deadline
  <2>1. waited' = waited \/ (waited < Deadline /\ waited' = waited + 1)
    BY DEF EraseRefused, FinalReset, SkipFrame, TimePassesBy, espVars
  <2>2. waited \in 0..Deadline
    BY DEF Bounded, LineCounted
  <2>3. QED
    BY <2>1, <2>2
<1>4. Link' /\ Len(answers') <= MaxAnswers
  <2>1. CASE FinalReset
    <3>1. AfterReset("app", FALSE) /\ stub' \in BOOLEAN
      BY <1>1, <2>1 DEF FinalReset, Bounded, Link
    <3>2. QED
      BY <3>1, LinkReset DEF Bounded
  <2>2. CASE ~ FinalReset
    <3>1. UNCHANGED <<baud, chip>> /\ (UNCHANGED answers \/ (answers # <<>> /\ answers' = Tail(answers)))
      BY <2>2 DEF EraseRefused, SkipFrame, TimePassesBy, espVars, linkVars
    <3>2. Len(answers') <= MaxAnswers
      BY <1>1, <3>1, FewerAnswers DEF Bounded, LineCounted
    <3>3. QED
      BY <1>1, <3>1, <3>2 DEF Bounded, Link
  <2>3. QED
    BY <2>1, <2>2
<1>5. QED
  BY <1>1, <1>2, <1>3, <1>4 DEF Bounded, LineCounted

LEMMA BoundedStep == EspInv /\ Bounded /\ [EspNext]_espVars => Bounded'
  BY SendBounded, ConnectBounded, ReturnBounded, DataBounded, EndBounded DEF EspNext

LEMMA BoundedStart ==
  ASSUME NEW pc \in {"connect", "done"}, NEW outcome \in Outcomes, EspStart(pc, outcome) PROVE EspTyped /\ Bounded
<1>1. PICK call \in Calls, skip \in BOOLEAN, rom \in BOOLEAN, reopens \in BOOLEAN :
        task = [call |-> call, skip |-> skip, rom |-> rom, reopens |-> reopens, outcome |-> outcome,
                pc |-> pc, sent |-> FALSE, recover |-> FALSE, part |-> 1, try |-> 1,
                block |-> 1, attempt |-> 1]
  BY DEF EspStart
<1>2. /\ 1 \in Parts /\ 1 \in Blocks /\ 0 \in 0..NParts /\ 1 \in 1..NBlocks + 1 /\ 0 \in 0..Deadline
      /\ 1 \in 1..PartAttempts /\ 1 \in 1..BlockAttempts
  BY DEF Parts, Blocks
<1>3. /\ answers = <<>> /\ verified = {} /\ content \in [Parts -> SUBSET Blocks] /\ waited = 0
      /\ resent = {} /\ stub = FALSE /\ chip = NoDownload
      /\ baud = [port |-> "slow", chip |-> "slow", noted |-> "slow"]
  BY DEF EspStart
<1>4. EspTyped
  <2>1. task \in Task
    BY <1>1, <1>2 DEF Task
  <2>2. QED
    BY <1>3, <2>1, EmptyList DEF EspTyped
<1>5. Tries
  BY <1>1, <1>2 DEF Tries
<1>6. Link
  BY <1>2, <1>3 DEF Link, Rates, Loader, NoDownload, Speeds
<1>7. Len(answers) <= MaxAnswers
  <2>1. Len(<<>>) = 0
    OBVIOUS
  <2>2. QED
    BY <1>3, <2>1
<1>8. QED
  BY <1>2, <1>3, <1>4, <1>5, <1>6, <1>7 DEF Bounded, LineCounted

LEMMA EspTypesFollow == EspTyped /\ Bounded => EspTypeOK
<1> SUFFICES ASSUME EspTyped, Bounded PROVE EspTypeOK
  OBVIOUS
<1>1. task \in [call : Calls, skip : BOOLEAN, rom : BOOLEAN, reopens : BOOLEAN, outcome : Outcomes,
                pc : Commands \cup {"connect", "reset", "done"}, sent : BOOLEAN, recover : BOOLEAN,
                part : Parts, try : 1..PartAttempts, block : 1..NBlocks + 1,
                attempt : 1..BlockAttempts \cup {2}]
  <2>1. task \in Task /\ task.try \in 1..PartAttempts /\ task.attempt \in 1..BlockAttempts \cup {2}
    BY DEF EspTyped, Bounded, Tries
  <2>2. task.block \in 1..NBlocks + 1
    BY <2>1 DEF Task, Blocks
  <2>3. QED
    BY <2>1, <2>2 DEF Task
<1>2. QED
  BY <1>1 DEF EspTypeOK, EspTyped, Bounded, Link, Rates, Loader, LineCounted, AnswerType

\* The types of the call, the loader and the line, with the bounds of the retries, for
\* every number of parts, blocks, attempts and answers.
THEOREM FlashTypes == EspSpec => []EspTypeOK
<1>1. EspInit => Bounded
  BY BoundedStart DEF EspInit, Outcomes
<1>2. EspInv => EspTyped
  BY DEF EspInv
<1>3. EspSpec => [](EspInv /\ Bounded)
  BY <1>1, EspInitInv, EspInvStep, BoundedStep, PTL DEF EspSpec
<1>4. QED
  BY <1>2, <1>3, EspTypesFollow, PTL
=============================================================================
