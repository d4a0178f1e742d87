--------------------------- MODULE MCApprovalGate ---------------------------
\* Test cases PIPELINES-37-TC02, TC06, TC11, TC13 (with two users) and TC18.
EXTENDS ApprovalGate

Ensure(us)   == [op |-> "ensure", alias |-> "group1", users |-> us]
Create(us, n) == [op |-> "create", users |-> us, aliases |-> {"group1"}, required |-> n]
Act(u, d)    == [op |-> "act", user |-> u, do |-> d]
State(w)     == [op |-> "state", want |-> w]
Run(w)       == [op |-> "run", want |-> w]
Counts(n, p, r, w) ==
  [op |-> "counts", required |-> n, pending |-> p, rejected |-> r, want |-> w]
Case(s, b) == [specs |-> s, short |-> b]

MCUsers == {"user1", "user2"}
TC02 == Case(<<Ensure(MCUsers), Create({}, 2), Act("user1", "approve"), Counts(2, 1, 0, "pending"),
               Act("user2", "approve"), Counts(2, 0, 0, "approved"), Run("successful")>>, FALSE)
TC06 == Case(<<Ensure({"user1"}), Create({}, 1), Act("user2", "approve-expect-fail"),
               Act("user1", "approve"), Run("successful")>>, FALSE)
TC11 == Case(<<Ensure({"user1"}), Create({"user1"}, 2), Act("user1", "approve"),
               Act("user1", "reject"), State("rejected"), Run("failed")>>, FALSE)
TC13 == Case(<<Ensure(MCUsers), Create({}, 3), Act("user1", "approve-allow-final-state"),
               Act("user2", "approve-allow-final-state"), Run("failed")>>, TRUE)
TC18 == Case(<<Ensure({"user1"}), Create({}, 1), Ensure({"user2"}),
               Act("user1", "approve-expect-fail"), Act("user2", "approve"),
               Run("successful")>>, FALSE)
MCCases == {TC02, TC06, TC11, TC13, TC18}

\* What may follow X, the timeout of a short test case included.
OrLate(c, X) == IF c.short THEN X \cup {Late(x) : x \in {y \in X : y.task.state = "pending"}}
                           ELSE X
MCCourse ==
  [p \in MCCases \X (1..MaxCases) |->
     LET c == p[1]
         n == p[2]
         f[i \in 1..(Len(c.specs) + 1)] ==
           OrLate(c, IF i = 1 THEN {Begin} ELSE {After(n, c.specs[i - 1], x) : x \in f[i - 1]})
     IN f]
=============================================================================
