--------------------------------- MODULE Unity ---------------------------------
(***************************************************************************)
(* How the test framework runs a test, whose failing assertion jumps out   *)
(* of it (UnityDefaultTestRun with setjmp and longjmp), and counts it.  A  *)
(* program is a sequence of RUN_TESTs between UNITY_BEGIN and UNITY_END;   *)
(* what each test and tearDown assert is taken from Tests, and what their  *)
(* assertions do from UnityAssertions.                                     *)
(***************************************************************************)
EXTENDS UnityAssertions, FiniteSets

CONSTANTS Tests,      \* what a test and tearDown may call: [body, teardown]
          MaxTests    \* bound: RUN_TESTs of main

ASSUME UnityConstants == MaxTests \in Nat

--------------------------------------------------------------------------------
(* What an assertion claims, by which its verdict is judged. *)

Text(s, length) == SubSeq(s, 1, Stop(s, length) - 1)
Distance(e, a) == IF a > e THEN a - e ELSE e - a
Same(e, a, bytes) == (e - a) % Space(bytes) = 0

ElementHolds(c, e, a) ==
    CASE c.op = "array"  -> Same(e[1], a[1], c.style.bytes)
      [] c.op = "array_within" ->
           IF Signed(c.style)
             THEN Distance(ToSigned(e[1], c.style.bytes), ToSigned(a[1], c.style.bytes)) <= c.arg
             ELSE Distance(ToUnsigned(e[1], c.style.bytes), ToUnsigned(a[1], c.style.bytes)) <= c.arg
      [] c.op = "string" ->
           IF Null \in {e, a} THEN e = a ELSE Text(e, c.arg) = Text(a, c.arg)
      [] c.op = "memory" -> SubSeq(e, 1, c.arg) = SubSeq(a, 1, c.arg)

Holds(c) ==
    LET e == c.x[1][1]
        a == c.y[1][1]
    IN  CASE c.op = "fail"   -> FALSE
          [] c.op = "ignore" -> TRUE
          [] c.op = "equal"  -> Same(e, a, WideBytes)
          [] c.op = "order"  -> \/ c.arg = 8 /\ a # e
                                \/ c.arg = 3 /\ a >= e
                                \/ c.arg = 2 /\ a > e
                                \/ c.arg = 5 /\ a <= e
                                \/ c.arg = 4 /\ a < e
          [] c.op = "within" -> Distance(e, a) <= c.arg
          [] c.op = "bits"   -> \A i \in 0..(8 * WideBytes - 1) : Bit(c.arg, i) * (Bit(e, i) - Bit(a, i)) = 0
          [] c.op \in Arrays ->
               /\ c.n > 0 /\ (c.op = "memory" => c.arg > 0)
               /\ (c.x = Null) = (c.y = Null)
               /\ c.x # Null => \A k \in 1..c.n : ElementHolds(c, Expected(c, k), c.y[k])

\* The verdict of a run of calls: that of the first that does not hold or is an ignore.
VerdictOf(calls) ==
    LET ends == {i \in DOMAIN calls : ~Holds(calls[i]) \/ calls[i].op = "ignore"}
    IN  IF ends = {} THEN "pass"
        ELSE IF Holds(calls[Least(ends)]) THEN "ignore" ELSE "fail"
Verdict(t) == IF VerdictOf(t.body) = "pass" THEN VerdictOf(t.teardown) ELSE VerdictOf(t.body)

--------------------------------------------------------------------------------
(* The runner. *)

VARIABLES phase,     \* where main is
          Unity,     \* the counters and flags of the framework
          test,      \* the test that runs
          todo,      \* the calls still to be made by the test, or by tearDown
          failing,   \* history: the call of this test that failed, or TestIgnore
          exit,      \* what main returned, as the shell sees it
          ran,       \* history: the tests begun, each as it should end
          tornDown   \* history: the calls of tearDown

unityVars == <<phase, Unity, test, todo, failing, exit, ran, tornDown>>

NoTest == [body |-> <<>>, teardown |-> <<>>]

UnityInit ==
    /\ phase = "begin"
    /\ Unity = [tests |-> 0, failures |-> 0, ignores |-> 0, failed |-> FALSE, ignored |-> FALSE]
    /\ test = NoTest /\ todo = <<>>
    /\ failing = TestIgnore
    /\ exit = -1
    /\ ran = <<>> /\ tornDown = 0

UnityBegin ==
    /\ phase = "begin" /\ phase' = "main"
    /\ Unity' = [tests |-> 0, failures |-> 0, ignores |-> 0, failed |-> FALSE, ignored |-> FALSE]
    /\ UNCHANGED <<test, todo, failing, exit, ran, tornDown>>

\* UnityDefaultTestRun begins: TEST_PROTECT, setUp, which is empty, and the test.
UnityDefaultTestRun ==
    /\ phase = "main" /\ Unity.tests < MaxTests
    /\ \E t \in Tests :
        /\ phase' = "body" /\ test' = t /\ todo' = t.body
        /\ Unity' = [Unity EXCEPT !.tests = @ + 1]
        /\ ran' = Append(ran, Verdict(t))
    /\ UNCHANGED <<failing, exit, tornDown>>

\* Mutant: an assertion of tearDown is evaluated though the test has ended otherwise.
AssertAlways ==
    /\ phase \in {"body", "teardown"} /\ todo # <<>>
    /\ LET c == Head(todo)
       IN  /\ Unity' = [Unity EXCEPT !.failed = @ \/ Fails(c), !.ignored = @ \/ c.op = "ignore"]
           /\ failing' = IF Fails(c) THEN c ELSE failing
           /\ todo' = IF Unity'.failed \/ Unity'.ignored THEN <<>> ELSE Tail(todo)
    /\ UNCHANGED <<phase, test, exit, ran, tornDown>>

\* One assertion, UnityFail or UnityIgnore: it returns, or sets a flag and jumps out.  With
\* a flag set it jumps out at once.
Assert ==
    /\ phase \in {"body", "teardown"} /\ todo # <<>>
    /\ IF Unity.failed \/ Unity.ignored
         THEN todo' = <<>> /\ UNCHANGED <<Unity, failing>>
         ELSE LET c == Head(todo)
              IN  /\ Unity' = [Unity EXCEPT !.failed = Fails(c), !.ignored = (c.op = "ignore")]
                  /\ failing' = IF Fails(c) THEN c ELSE failing
                  /\ todo' = IF Unity'.failed \/ Unity'.ignored THEN <<>> ELSE Tail(todo)
    /\ UNCHANGED <<phase, test, exit, ran, tornDown>>

\* The second TEST_PROTECT, reached when the test returns and when it jumps out.
TearDown ==
    /\ phase = "body" /\ todo = <<>>
    /\ phase' = "teardown"
    /\ todo' = test.teardown /\ tornDown' = tornDown + 1
    /\ UNCHANGED <<Unity, test, failing, exit, ran>>

UnityConcludeTest ==
    /\ phase = "teardown" /\ todo = <<>>
    /\ phase' = "main" /\ test' = NoTest /\ failing' = TestIgnore
    /\ Unity' = [Unity EXCEPT
            !.ignores  = IF Unity.ignored THEN @ + 1 ELSE @,
            !.failures = IF ~Unity.ignored /\ Unity.failed THEN @ + 1 ELSE @,
            !.failed = FALSE, !.ignored = FALSE]
    /\ UNCHANGED <<todo, exit, ran, tornDown>>

\* main returns UnityEnd(), of which the shell keeps a byte.
UnityEnd ==
    /\ phase = "main"
    /\ phase' = "ended" /\ exit' = Unity.failures % 256
    /\ UNCHANGED <<Unity, test, todo, failing, ran, tornDown>>

UnityNext ==
    \/ UnityBegin \/ UnityDefaultTestRun \/ Assert \/ TearDown
    \/ UnityConcludeTest \/ UnityEnd

UnitySpec == UnityInit /\ [][UnityNext]_unityVars

--------------------------------------------------------------------------------

Ended(verdict) == Cardinality({i \in DOMAIN ran : ran[i] = verdict})

\* A test that jumps out of its body is torn down as one that returns, before it counts.
EveryTestTornDown == phase \in {"main", "ended"} => tornDown = Unity.tests

\* The exit status, and the three numbers printed, say how the tests went: a test counts
\* once, as failed if an assertion it came to does not hold, whatever that assertion
\* compares (numbers of any width, arrays, strings, memory, NULL) and whatever tearDown
\* asserts after a failure; no test is counted before it is torn down, and none changes
\* the verdict of the next.
VerdictExact ==
    /\ EveryTestTornDown
    /\ phase \in {"main", "ended"} =>
        /\ Unity.tests = Len(ran)
        /\ Unity.failures = Ended("fail") /\ Unity.ignores = Ended("ignore")
        /\ phase = "ended" => (exit = 0) = ("fail" \notin {ran[i] : i \in DOMAIN ran})

HasBackslash(strings) == \E k \in DOMAIN strings : \E i \in DOMAIN strings[k] : strings[k][i] = 92
HasTwoTexts(c) ==
    \/ c.op \in {"equal", "order", "within", "bits"}
    \/ c.op \in Arrays /\ ~NothingToCompare(c) /\ ~OneArrayNull(c)

TellsApart(c) ==
    LET m == Message(c)
    IN  \/ m[1] # m[2]
        \/ c.op = "order" /\ c.x = c.y
        \/ c.op = "bits" /\ ToUnsigned(c.arg, WideBytes) >= Space(IntBytes)
        \/ c.op = "string" /\ HasBackslash(c.x \o c.y)

\* The message of a failure shows two texts that differ, at every width and style and with
\* the smallest negative number, but for an order that equal numbers fail, for bits past
\* those of an int, which UnityPrintMask leaves out, and for a string with a backslash.
MessageTellsApart == HasTwoTexts(failing) => TellsApart(failing)
================================================================================
