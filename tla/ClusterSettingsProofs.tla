----------------------- MODULE ClusterSettingsProofs ------------------------
(***************************************************************************)
(* Theorems about ClusterSettings, for any containers that read a setting  *)
(* before they change it and restore what they read, any parts and any     *)
(* number of failing commands.                                             *)
(***************************************************************************)
EXTENDS ClusterSettings, TLAPS

-----------------------------------------------------------------------------
(***************************************************************************)
(* Facts about operators and constants.                                    *)
(***************************************************************************)
\* A container's scripts are sequences of operations.
LEMMA ScriptTypes ==
  ASSUME NEW c \in Containers
  PROVE  /\ Len(c.ops) \in Nat /\ Len(c.after) \in Nat
         /\ \A i \in 1..Len(c.ops) : c.ops[i] \in Operations
         /\ \A i \in 1..Len(c.after) : c.after[i] \in Operations
         /\ c.after = <<>> => Len(c.after) = 0
         /\ ReadFirst(c) /\ RestoreRead(c)
BY ContainersAssumption DEF Container

\* Meaning and knowledge of values stay within the values of a setting.
LEMMA ValueTypes ==
  ASSUME NEW f \in Fields, NEW v \in ValuesOf(f)
  PROVE  Eff(f, v) \in ValuesOf(f) /\ Known(f, v) \in ValuesOf(f)
BY DEF Fields, ValuesOf, Eff, Known, Flags, Profiles

\* Writing a setting leaves the others alone, but for the pruners.
LEMMA WrittenFacts ==
  ASSUME cfg \in Settings, NEW f \in Restorable, NEW v \in ValuesOf(f)
  PROVE  /\ Written(f, v) \in Settings
         /\ Written(f, v)[f] = Known(f, v)
         /\ f = "pruner" => Written(f, v)["cron"] = IF v = "true" THEN "false" ELSE "true"
         /\ f # "pruner" => Written(f, v)["cron"] = cfg["cron"]
         /\ \A g \in Restorable \ {f} : Written(f, v)[g] = cfg[g]
<1>1. f \in Fields /\ Known(f, v) \in ValuesOf(f)
  BY ValueTypes DEF Restorable, Fields
<1>2. \A g \in Fields : ValuesOf(g) \subseteq FieldValues
  BY DEF ValuesOf, FieldValues
<1>3. cfg \in [Fields -> FieldValues] /\ \A g \in Fields : cfg[g] \in ValuesOf(g)
  BY DEF Settings
<1>4. {"true", "false"} \subseteq ValuesOf("cron") /\ "cron" \in Fields /\ "cron" \notin Restorable
  BY DEF ValuesOf, Flags, Fields, Restorable
<1>5. CASE f = "pruner"
  <2>1. Known(f, v) = v
    BY <1>5 DEF Known
  <2>2. Written(f, v) = [cfg EXCEPT !["pruner"] = v, !["cron"] = IF v = "true" THEN "false" ELSE "true"]
    BY <1>5 DEF Written
  <2> QED BY <1>1, <1>2, <1>3, <1>4, <1>5, <2>1, <2>2 DEF Settings, Restorable, Fields
<1>6. CASE f # "pruner"
  <2>1. Written(f, v) = [cfg EXCEPT ![f] = Known(f, v)]
    BY <1>6 DEF Written
  <2> QED BY <1>1, <1>2, <1>3, <1>4, <1>6, <2>1 DEF Settings, Restorable, Fields
<1> QED BY <1>5, <1>6

-----------------------------------------------------------------------------
(***************************************************************************)
(* The inductive invariant.                                                *)
(***************************************************************************)
\* What has been passed in BeforeAll has been read; what has been read was
\* passed.
ReadInv ==
  /\ phase = "run" /\ at <= Len(container.ops) =>
       \A j \in 1..(at - 1) : container.ops[j].op = "get" => container.ops[j].f \in read
  /\ /\ phase = "run" /\ at > 1 /\ Len(container.ops) > 0
     /\ container.ops[1].op = "get" /\ container.ops[1].f # "tls"
     => container.ops[1].f \in read
  /\ \A f \in read : \E j \in 1..Len(container.ops) :
       Of(container.ops[j], "get", f) /\ (phase = "run" => j < at)

\* The cleanup restores step by step, the guarded settings after they were read.
AfterInv ==
  /\ phase = "run" => restored = {}
  /\ afterFailed => phase = "done"
  /\ phase = "after" =>
       /\ \A j \in 1..Len(container.after) :
            container.after[j].op = "restore" /\ container.after[j].f \in Guarded =>
              container.after[j].f \in read
       /\ \A j \in 1..(at - 1) : container.after[j].op = "restore" => container.after[j].f \in restored
       /\ \A f \in restored : \E j \in 1..(at - 1) : Of(container.after[j], "restore", f)
  /\ phase = "done" /\ ~afterFailed => read \subseteq restored

\* Settings are as found until they are read or restored, unless a restoration
\* failed; what was read is what was found, and what was not has no value; what
\* has been restored is as it was read, a guarded setting only once it was.
CronOf(v) == IF v = "true" THEN "false" ELSE "true"
ValueInv ==
  /\ orig["cron"] = CronOf(orig["pruner"])
  /\ ~afterFailed => \A f \in Restorable \ (read \cup restored) :
       cfg[f] = orig[f] /\ (f = "pruner" => cfg["cron"] = orig["cron"])
  /\ \A f \in (Restorable \ read) \cup misread : saved[f] = "unset"
  /\ restored \cap Guarded \subseteq read
  /\ \A f \in read \ misread : saved[f] = IF f = "tls" THEN Eff("tls", orig["tls"]) ELSE orig[f]
  /\ \A f \in restored :
       cfg[f] = Known(f, GoBackTo(f)) /\ (f = "pruner" => cfg["cron"] = CronOf(GoBackTo(f)))

IInv == TypeOK /\ ReadInv /\ AfterInv /\ ValueInv

-----------------------------------------------------------------------------
(***************************************************************************)
(* Control: what carrying out one operation does to the position.          *)
(***************************************************************************)
AtOp == phase # "done" /\ at <= Len(Ops)

\* The operation at hand is one of the script's.
LEMMA CurFacts ==
  ASSUME TypeOK, AtOp
  PROVE  /\ container \in Containers /\ Cur \in Operations
         /\ phase = "run" => at \in 1..Len(container.ops) /\ Cur = container.ops[at]
         /\ phase = "after" => at \in 1..Len(container.after) /\ Cur = container.after[at]
         /\ phase \in {"run", "after"}
<1>1. container \in Containers /\ phase \in {"run", "after"} /\ at \in Nat \ {0}
  BY DEF TypeOK, AtOp
<1>2. CASE phase = "run"
  <2>1. at \in 1..Len(container.ops) /\ Cur = container.ops[at]
    BY <1>1, <1>2, ScriptTypes DEF AtOp, Ops, Cur
  <2> QED BY <1>1, <1>2, <2>1, ScriptTypes
<1>3. CASE phase = "after"
  <2>1. at \in 1..Len(container.after) /\ Cur = container.after[at]
    BY <1>1, <1>3, ScriptTypes DEF AtOp, Ops, Cur
  <2> QED BY <1>1, <1>3, <2>1, ScriptTypes
<1> QED BY <1>1, <1>2, <1>3

\* An operation succeeds, ends its spec or ends the cleanup.
LEMMA MoveFacts ==
  ASSUME TypeOK, AtOp, Ok \/ Fail, container' = container
  PROVE  /\ phase' \in {"run", "after", "done"} /\ at' \in Nat \ {0}
         /\ phase' # "done" => at' <= Len(Ops') + 1
         /\ failed' \subseteq Nat /\ afterFailed' \in BOOLEAN
         /\ \/ /\ phase = "run" /\ phase' = "run" /\ afterFailed' = afterFailed /\ at' > at
               /\ at' <= Len(container.ops) => at' = at + 1 \/ Cur.spec > 0
            \/ phase = "after" /\ phase' = "after" /\ at' = at + 1 /\ afterFailed' = afterFailed
            \/ phase = "after" /\ phase' = "done" /\ afterFailed' = TRUE /\ at' = at
<1>1. /\ container \in Containers /\ Cur.spec \in Nat /\ phase \in {"run", "after"}
      /\ phase = "run" => at \in 1..Len(container.ops)
      /\ phase = "after" => at \in 1..Len(container.after)
  BY CurFacts DEF Operations
<1>2. Len(container.ops) \in Nat /\ Len(container.after) \in Nat
  BY <1>1, ScriptTypes
<1>3. failed \subseteq Nat /\ afterFailed \in BOOLEAN
  BY DEF TypeOK
<1>4. CASE Ok
  BY <1>1, <1>2, <1>3, <1>4 DEF Ok, Ops
<1>5. CASE Fail /\ phase = "after"
  <2>1. phase' = "done" /\ afterFailed' = TRUE /\ at' = at /\ failed' = failed
    BY <1>5 DEF Fail
  <2>2. afterFailed' \in BOOLEAN
    BY <2>1
  <2>3. at' \in Nat \ {0}
    BY <2>1 DEF TypeOK
  <2> QED BY <1>3, <1>5, <2>1, <2>2, <2>3
<1>6. CASE Fail /\ phase = "run"
  <2>1. /\ phase' = "run" /\ afterFailed' = afterFailed
        /\ failed' = failed \cup {Cur.spec} /\ NextSpec
    BY <1>6 DEF Fail
  <2>2. /\ at' \in 1..(Len(container.ops) + 1) /\ at' > at
        /\ at' <= Len(container.ops) => Cur.spec > 0
    <3>1. CASE container.goOn /\ Cur.spec > 0 /\ Later # {}
      <4>1. PICK j \in Later : at' = j
        BY <2>1, <3>1 DEF NextSpec
      <4> QED BY <1>1, <1>2, <3>1, <4>1 DEF Later
    <3>2. CASE ~(container.goOn /\ Cur.spec > 0 /\ Later # {})
      <4>1. at' = Len(container.ops) + 1
        BY <2>1, <3>2 DEF NextSpec
      <4> QED BY <1>1, <1>2, <1>6, <4>1
    <3> QED BY <3>1, <3>2
  <2>3. Len(Ops') = Len(container.ops)
    BY <2>1 DEF Ops
  <2>4. at' \in Nat \ {0} /\ at' <= Len(Ops') + 1
    BY <1>2, <2>2, <2>3
  <2>5. failed' \subseteq Nat
    BY <1>1, <1>3, <2>1
  <2>6. afterFailed' \in BOOLEAN
    BY <1>3, <2>1
  <2>7. at' <= Len(container.ops) => at' = at + 1 \/ Cur.spec > 0
    BY <2>2
  <2> QED BY <1>6, <2>1, <2>2, <2>4, <2>5, <2>6, <2>7
<1> QED BY <1>1, <1>4, <1>5, <1>6

\* Moving on keeps the record of what was read.
LEMMA ReadStep ==
  ASSUME TypeOK, ReadInv, AtOp, Ok \/ Fail, container' = container,
         \/ read' = read /\ (Cur.op = "get" => Cur.f = "tls" /\ at' > Len(container.ops))
         \/ phase = "run" /\ Cur.op = "get" /\ read' = read \cup {Cur.f}
  PROVE  ReadInv'
<1> DEFINE ops == container.ops
<1>1. /\ container \in Containers /\ Cur \in Operations /\ phase \in {"run", "after"}
      /\ phase = "run" => at \in 1..Len(ops) /\ Cur = ops[at]
  BY CurFacts
<1>2. /\ Len(ops) \in Nat /\ \A i \in 1..Len(ops) : ops[i] \in Operations
      /\ ReadFirst(container)
  BY <1>1, ScriptTypes
<1>3. \A j \in 1..Len(ops) : ops[j].op = "get" => \A i \in 1..j : ops[i].spec = 0
  BY <1>2 DEF ReadFirst
<1>4. read \subseteq read'
  OBVIOUS
<1>5. /\ phase' = "run" => phase = "run" /\ at' > at
      /\ phase' = "run" /\ at' <= Len(ops) => at' = at + 1 \/ Cur.spec > 0
      /\ at' \in Nat \ {0}
  BY MoveFacts
<1>6. ASSUME phase' = "run", at' <= Len(ops), NEW j \in 1..(at' - 1), ops[j].op = "get"
      PROVE  ops[j].f \in read'
  <2>1. j \in 1..Len(ops) /\ at \in 1..Len(ops) /\ Cur = ops[at]
    <3>1. phase = "run"
      BY <1>5, <1>6
    <3>2. j \in 1..Len(ops)
      BY <1>2, <1>5, <1>6
    <3> QED BY <1>1, <3>1, <3>2
  <2>2. CASE j < at
    <3>1. at <= Len(ops) /\ j \in 1..(at - 1)
      BY <2>1, <2>2
    <3> QED BY <1>4, <1>5, <1>6, <3>1 DEF ReadInv
  <2>3. CASE j >= at
    <3>1. ops[at].spec = 0
      BY <1>3, <1>6, <2>1, <2>3
    <3>2. at' = at + 1
      BY <1>5, <1>6, <2>1, <3>1
    <3>3. j = at
      BY <2>1, <2>3, <3>2
    <3> QED BY <1>2, <1>6, <2>1, <3>2, <3>3
  <2> QED BY <2>1, <2>2, <2>3
<1>7. ASSUME phase' = "run", at' > 1, Len(ops) > 0, ops[1].op = "get", ops[1].f # "tls"
      PROVE  ops[1].f \in read'
  <2>1. at \in 1..Len(ops) /\ Cur = ops[at] /\ phase = "run"
    BY <1>1, <1>5, <1>7
  <2>2. CASE at = 1
    BY <1>7, <2>1, <2>2
  <2>3. CASE at > 1
    BY <1>4, <1>7, <2>1, <2>3 DEF ReadInv
  <2> QED BY <2>1, <2>2, <2>3
<1>8. ASSUME NEW f \in read'
      PROVE  \E j \in 1..Len(ops) : Of(ops[j], "get", f) /\ (phase' = "run" => j < at')
  <2>1. CASE f \in read
    <3>1. PICK j \in 1..Len(ops) : Of(ops[j], "get", f) /\ (phase = "run" => j < at)
      BY <2>1 DEF ReadInv
    <3>2. phase' = "run" => j < at'
      BY <1>1, <1>2, <1>5, <3>1
    <3> QED BY <3>1, <3>2
  <2>2. CASE f \notin read
    <3>1. phase = "run" /\ Cur.op = "get" /\ f = Cur.f
      BY <1>8, <2>2
    <3>2. at \in 1..Len(ops) /\ Of(ops[at], "get", f)
      BY <1>1, <3>1 DEF Of
    <3>3. phase' = "run" => at < at'
      BY <1>1, <1>2, <1>5, <3>1
    <3> QED BY <3>2, <3>3
  <2> QED BY <2>1, <2>2
<1> QED BY <1>6, <1>7, <1>8 DEF ReadInv

\* Moving on keeps the record of what was restored.
LEMMA AfterStep ==
  ASSUME TypeOK, AfterInv, AtOp, Ok \/ Fail, container' = container,
         read' = read \/ (phase = "run" /\ read \subseteq read'),
         \/ restored' = restored /\ (phase' = "after" => Cur.op # "restore")
         \/ phase' = "after" /\ restored' = restored \cup {Cur.f} /\ Cur.op = "restore"
  PROVE  AfterInv'
<1> DEFINE after == container.after
<1>1. container \in Containers /\ phase \in {"run", "after"} /\ Len(after) \in Nat
  BY CurFacts, ScriptTypes
<1>2. \/ phase = "run" /\ phase' = "run" /\ afterFailed' = afterFailed
      \/ phase = "after" /\ phase' = "after" /\ at' = at + 1 /\ afterFailed' = afterFailed
      \/ phase = "after" /\ phase' = "done" /\ afterFailed' = TRUE /\ at' = at
  BY MoveFacts
<1>3. CASE phase' = "run"
  <2>1. phase = "run" /\ afterFailed' = afterFailed
    BY <1>2, <1>3
  <2>2. restored' = {} /\ ~afterFailed'
    BY <1>3, <2>1 DEF AfterInv
  <2> QED BY <1>3, <2>2 DEF AfterInv
<1>4. CASE phase' = "done"
  <2>1. afterFailed'
    BY <1>2, <1>4
  <2> QED BY <1>4, <2>1 DEF AfterInv
<1>5. CASE phase' = "after"
  <2>1. phase = "after" /\ at' = at + 1 /\ afterFailed' = afterFailed /\ read' = read
    BY <1>2, <1>5
  <2>2. at \in 1..Len(after) /\ Cur = after[at]
    BY <2>1, CurFacts
  <2>3. ~afterFailed'
    BY <2>1 DEF AfterInv
  <2>4. \A j \in 1..(at' - 1) : j \in 1..(at - 1) \/ j = at
    BY <1>1, <2>1, <2>2
  <2>5. \A j \in 1..(at - 1) : after[j].op = "restore" => after[j].f \in restored
    BY <2>1 DEF AfterInv
  <2>6. \A j \in 1..(at' - 1) : after[j].op = "restore" => after[j].f \in restored'
    BY <1>5, <2>2, <2>4, <2>5
  <2>7. \A f \in restored' : \E j \in 1..(at' - 1) : Of(after[j], "restore", f)
    <3> SUFFICES ASSUME NEW f \in restored'
                 PROVE  \E j \in 1..(at' - 1) : Of(after[j], "restore", f)
      OBVIOUS
    <3>1. CASE f \in restored
      <4>1. PICK j \in 1..(at - 1) : Of(after[j], "restore", f)
        BY <2>1, <3>1 DEF AfterInv
      <4>2. j \in 1..(at' - 1)
        BY <1>1, <2>1, <2>2
      <4> QED BY <4>1, <4>2
    <3>2. CASE f \notin restored
      <4>1. f = Cur.f /\ Cur.op = "restore"
        BY <3>2
      <4>2. Of(after[at], "restore", f)
        BY <2>2, <4>1 DEF Of
      <4>3. at \in 1..(at' - 1)
        BY <1>1, <2>1, <2>2
      <4> QED BY <4>2, <4>3
    <3> QED BY <3>1, <3>2
  <2>8. \A j \in 1..Len(after) : after[j].op = "restore" /\ after[j].f \in Guarded => after[j].f \in read'
    BY <2>1 DEF AfterInv
  <2> QED BY <1>5, <2>3, <2>6, <2>7, <2>8 DEF AfterInv
<1> QED BY <1>2, <1>3, <1>4, <1>5

\* A step that leaves the settings and what is kept of them alone.
LEMMA ValueStep ==
  ASSUME ValueInv, afterFailed => afterFailed', UNCHANGED <<cfg, orig, keeping>>
  PROVE  ValueInv'
<1> USE DEF keeping
<1>1. UNCHANGED <<cfg, orig, saved, read, restored, misread>>
  OBVIOUS
<1>2. \A f \in restored : GoBackTo(f)' = GoBackTo(f)
  BY <1>1 DEF GoBackTo
<1> QED BY <1>1, <1>2 DEF ValueInv, CronOf, Eff, Known, GoBackTo

-----------------------------------------------------------------------------
(***************************************************************************)
(* Initial states and steps.                                               *)
(***************************************************************************)
LEMMA InitInv == Init => IInv
<1> SUFFICES ASSUME Init PROVE IInv
  OBVIOUS
<1>1. container \in Containers /\ Len(container.ops) \in Nat
  BY ScriptTypes DEF Init
<1>2. cfg \in Settings /\ orig = cfg /\ seen = cfg /\ cfg["cron"] = CronOf(cfg["pruner"])
  BY StartsAssumption DEF Init, CronOf
<1>3. \A v \in FieldValues : Eff("tls", v) \in FieldValues /\ Eff("mtls", v) \in FieldValues
  BY DEF Eff, FieldValues, Flags, Profiles
<1>4. cfg["tls"] \in FieldValues /\ cfg["mtls"] \in FieldValues /\ "false" \in FieldValues
  BY <1>2 DEF Settings, Fields, FieldValues, Flags
<1>5. \A p \in Parts : Target(p, cfg) \in SUBSET FieldValues
  BY <1>3, <1>4 DEF Target
<1>6. shown \in [Parts -> SUBSET FieldValues]
  BY <1>5 DEF Init
<1>7. saved \in Settings
  BY DEF Init, Settings, Fields, FieldValues, Flags, Profiles, ValuesOf
<1>8. TypeOK
  <2>1. at \in Nat \ {0} /\ at <= Len(Ops) + 1 /\ faults \in 0..MaxFaults
    BY <1>1, FaultsAssumption DEF Init, Ops
  <2>2. ready \in BOOLEAN /\ sets \in BOOLEAN /\ copied \in BOOLEAN /\ afterFailed \in BOOLEAN
    BY DEF Init
  <2>3. read = {} /\ restored = {} /\ misread = {} /\ failed = {} /\ phase = "run"
    BY DEF Init
  <2> QED BY <1>1, <1>2, <1>6, <1>7, <2>1, <2>2, <2>3 DEF TypeOK
<1>9. ReadInv
  BY DEF Init, ReadInv
<1>10. AfterInv
  BY DEF Init, AfterInv
<1>11. ValueInv
  BY <1>2 DEF Init, ValueInv, Restorable, Fields
<1> QED BY <1>8, <1>9, <1>10, <1>11 DEF IInv

\* The types of what an operation on the position does not touch.
LEMMA TypeStep ==
  ASSUME TypeOK, AtOp, Ok \/ Fail, UNCHANGED <<container, orig, operator>>,
         cfg' \in Settings, saved' \in Settings, read' \subseteq Restorable,
         restored' \subseteq Restorable, misread' \subseteq read',
         Fine \/ Fault, copied' \in BOOLEAN
  PROVE  TypeOK'
<1>1. /\ phase' \in {"run", "after", "done"} /\ at' \in Nat \ {0}
      /\ phase' # "done" => at' <= Len(Ops') + 1
      /\ failed' \subseteq Nat /\ afterFailed' \in BOOLEAN
  BY MoveFacts
<1>2. faults' \in 0..MaxFaults
  BY FaultsAssumption DEF Fine, Fault, TypeOK
<1>3. UNCHANGED <<container, orig, seen, shown, ready, sets>>
  BY DEF operator
<1>4. /\ container' \in Containers /\ orig' \in Settings /\ seen' \in Settings
      /\ shown' \in [Parts -> SUBSET FieldValues] /\ ready' \in BOOLEAN /\ sets' \in BOOLEAN
  BY <1>3 DEF TypeOK
<1> QED BY <1>1, <1>2, <1>4 DEF TypeOK

\* Assertions move on, or fail, and change no setting.
LEMMA AssertionStep ==
  ASSUME IInv, AtOp, Ok \/ Fail, UNCHANGED <<container, orig, cfg, keeping, operator>>,
         Fine \/ Fault, copied' \in BOOLEAN, Cur.op \notin {"get", "restore"}
  PROVE  IInv'
<1>1. UNCHANGED <<saved, read, restored, misread>>
  BY DEF keeping
<1>2. TypeOK'
  BY <1>1, TypeStep DEF IInv, TypeOK
<1>3. ReadInv'
  BY <1>1, ReadStep DEF IInv
<1>4. AfterInv'
  BY <1>1, AfterStep DEF IInv
<1>5. afterFailed => afterFailed'
  BY MoveFacts DEF IInv, AfterInv, AtOp
<1>6. ValueInv'
  BY <1>5, ValueStep DEF IInv
<1> QED BY <1>2, <1>3, <1>4, <1>6 DEF IInv

\* Reading happens in BeforeAll, once.
LEMMA GetStep ==
  ASSUME IInv, Get
  PROVE  /\ IInv'
         /\ phase = "run" /\ Cur.f \in Restorable \ read /\ cfg' = cfg
         /\ restored' = restored /\ afterFailed' = afterFailed
         /\ \/ read' = read /\ saved' = saved
            \/ /\ read' = read \cup {Cur.f}
               /\ \E v \in {"unset", IF Cur.f = "tls" THEN Eff("tls", cfg["tls"]) ELSE cfg[Cur.f]} :
                    saved' = [saved EXCEPT ![Cur.f] = v]
<1> DEFINE ops == container.ops
           V   == IF Cur.f = "tls" THEN Eff("tls", cfg["tls"]) ELSE cfg[Cur.f]
<1>1. /\ AtOp /\ Cur.op = "get" /\ UNCHANGED <<container, orig, cfg, restored, operator, copied>>
      /\ Ok \/ Fail
      /\ Fine \/ Fault
  BY DEF Get, On, AtOp, Same
<1>2. TypeOK /\ ReadInv /\ AfterInv /\ ValueInv
  BY DEF IInv
<1>3. container \in Containers /\ phase \in {"run", "after"}
  BY <1>1, <1>2, CurFacts
<1>4. phase = "run" /\ at \in 1..Len(ops) /\ Cur = ops[at]
  <2>1. phase = "after" => Cur.op \in {"restore", "wait"}
    BY <1>1, <1>2, <1>3, CurFacts, ScriptTypes DEF RestoreRead
  <2> QED BY <1>1, <1>2, <1>3, <2>1, CurFacts
<1>5. /\ Cur.f \in Restorable /\ Cur.spec = 0
      /\ \A j \in 1..Len(ops) : Of(ops[j], "get", Cur.f) => j = at
  BY <1>1, <1>3, <1>4, ScriptTypes DEF ReadFirst
<1>6. Cur.f \notin read
  BY <1>2, <1>4, <1>5, ScriptTypes, <1>3 DEF ReadInv, TypeOK
<1>7. /\ Cur.f \in Fields /\ V \in ValuesOf(Cur.f) /\ "unset" \in ValuesOf(Cur.f)
  BY <1>2, <1>5, ValueTypes DEF TypeOK, Settings, Restorable, Fields, ValuesOf, Flags, Profiles
<1>8. \/ /\ read' = read \cup {Cur.f} /\ misread' \subseteq misread \cup {Cur.f}
         /\ Ok
         /\ \/ misread' = misread /\ saved' = [saved EXCEPT ![Cur.f] = V]
            \/ misread' = misread \cup {Cur.f} /\ saved' = [saved EXCEPT ![Cur.f] = "unset"]
      \/ /\ read' = read /\ saved' = saved /\ misread' = misread
         /\ Fail /\ Cur.f = "tls"
  BY DEF Get
<1>9. Fail => at' = Len(ops) + 1
  BY <1>4, <1>5 DEF Fail, NextSpec
<1>10. saved' \in Settings
  <2>1. \A v \in {V, "unset"} : [saved EXCEPT ![Cur.f] = v] \in Settings
    <3>1. saved \in [Fields -> FieldValues] /\ \A g \in Fields : saved[g] \in ValuesOf(g)
      BY <1>2 DEF TypeOK, Settings
    <3>2. V \in FieldValues /\ "unset" \in FieldValues
      BY <1>7 DEF ValuesOf, FieldValues
    <3> QED BY <1>7, <3>1, <3>2 DEF Settings
  <2> QED BY <1>2, <1>8, <2>1 DEF TypeOK
<1>11. TypeOK'
  <2>1. read' \subseteq Restorable /\ restored' \subseteq Restorable /\ misread' \subseteq read'
    BY <1>1, <1>2, <1>5, <1>8 DEF TypeOK
  <2>2. cfg' \in Settings /\ copied' \in BOOLEAN
    BY <1>1, <1>2 DEF TypeOK
  <2> QED BY <1>1, <1>2, <1>10, <2>1, <2>2, TypeStep
<1>12. ReadInv'
  <2>1. Fail => at' > Len(ops)
    BY <1>3, <1>9, ScriptTypes
  <2> QED BY <1>1, <1>2, <1>4, <1>8, <2>1, ReadStep
<1>13. phase' = "run" /\ afterFailed' = afterFailed
  BY <1>1, <1>2, <1>4, MoveFacts
<1>14. AfterInv'
  BY <1>1, <1>2, <1>4, <1>8, <1>13, AfterStep
<1>15. ValueInv'
  <2>1. restored' = {} /\ orig' = orig /\ cfg' = cfg
    BY <1>1, <1>2, <1>4 DEF AfterInv
  <2>2. orig'["cron"] = CronOf(orig'["pruner"])
    BY <1>2, <2>1 DEF ValueInv
  <2>3. \A f \in Restorable \ read' :
          cfg'[f] = orig'[f] /\ (f = "pruner" => cfg'["cron"] = orig'["cron"])
    BY <1>2, <1>4, <1>8, <2>1 DEF ValueInv, AfterInv
  <2>4. cfg[Cur.f] = orig[Cur.f]
    BY <1>2, <1>4, <1>5, <1>6 DEF ValueInv, AfterInv
  <2>5. \A f \in read' \ misread' :
          saved'[f] = IF f = "tls" THEN Eff("tls", orig["tls"]) ELSE orig[f]
    <3> SUFFICES ASSUME NEW f \in read' \ misread'
                 PROVE  saved'[f] = IF f = "tls" THEN Eff("tls", orig["tls"]) ELSE orig[f]
      OBVIOUS
    <3>1. saved \in [Fields -> FieldValues]
      BY <1>2 DEF TypeOK, Settings
    <3>2. f \in Fields
      BY <1>11 DEF TypeOK, Restorable, Fields
    <3>3. CASE f = Cur.f
      <4>1. saved'[f] = V
        BY <1>6, <1>8, <3>1, <3>2, <3>3
      <4> QED BY <2>4, <3>3, <4>1
    <3>4. CASE f # Cur.f
      <4>1. saved'[f] = saved[f] /\ f \in read \ misread
        BY <1>8, <3>1, <3>2, <3>4
      <4> QED BY <1>2, <4>1 DEF ValueInv
    <3> QED BY <3>3, <3>4
  <2>6. \A f \in (Restorable \ read') \cup misread' : saved'[f] = "unset"
    <3> SUFFICES ASSUME NEW f \in (Restorable \ read') \cup misread'
                 PROVE  saved'[f] = "unset"
      OBVIOUS
    <3>1. saved \in [Fields -> FieldValues] /\ f \in Fields
      BY <1>2, <1>11 DEF TypeOK, Settings, Restorable, Fields
    <3>2. CASE f = Cur.f
      <4>1. CASE Ok
        BY <1>2, <1>5, <1>6, <1>8, <3>1, <3>2 DEF ValueInv, TypeOK
      <4>2. CASE Fail
        BY <1>2, <1>5, <1>6, <1>8, <3>1, <3>2 DEF ValueInv, TypeOK
      <4> QED BY <1>1, <4>1, <4>2
    <3>3. CASE f # Cur.f
      <4>1. saved'[f] = saved[f] /\ f \in (Restorable \ read) \cup misread
        BY <1>8, <3>1, <3>3
      <4> QED BY <1>2, <4>1 DEF ValueInv
    <3> QED BY <3>2, <3>3
  <2> QED BY <2>1, <2>2, <2>3, <2>5, <2>6 DEF ValueInv
<1>16. IInv'
  BY <1>11, <1>12, <1>14, <1>15 DEF IInv
<1> QED BY <1>1, <1>4, <1>5, <1>6, <1>8, <1>13, <1>16

\* A setting is changed after it was read and before the cleanup.
LEMMA SetStep ==
  ASSUME IInv, Set
  PROVE  /\ IInv'
         /\ phase = "run" /\ phase' = "run" /\ Cur.f \in read /\ UNCHANGED <<keeping, afterFailed>>
         /\ cfg' \in Settings /\ \A g \in Restorable \ {Cur.f} : cfg'[g] = cfg[g]
<1> DEFINE ops == container.ops
<1>1. /\ AtOp /\ Cur.op = "set" /\ UNCHANGED <<container, orig, keeping, operator, copied>>
      /\ Ok \/ Fail
      /\ Fine \/ Fault
      /\ cfg' \in {cfg, Written(Cur.f, Cur.v)}
  BY DEF Set, On, AtOp, Same
<1>2. TypeOK /\ ReadInv /\ AfterInv /\ ValueInv
  BY DEF IInv
<1>3. container \in Containers /\ phase \in {"run", "after"}
  BY <1>1, <1>2, CurFacts
<1>4. phase = "run" /\ at \in 1..Len(ops) /\ Cur = ops[at]
  <2>1. phase = "after" => Cur.op \in {"restore", "wait"}
    BY <1>1, <1>2, <1>3, CurFacts, ScriptTypes DEF RestoreRead
  <2> QED BY <1>1, <1>2, <1>3, <2>1, CurFacts
<1>5. PICK g \in 1..(at - 1) : Of(ops[g], "get", Cur.f)
  BY <1>1, <1>3, <1>4, ScriptTypes DEF ReadFirst
<1>6. Cur.v \in ValuesOf(Cur.f)
  BY <1>1, <1>3, <1>4, ScriptTypes DEF ReadFirst
<1>7. Cur.f \in read /\ Cur.f \in Restorable
  BY <1>2, <1>4, <1>5 DEF ReadInv, Of, TypeOK
<1>8. /\ cfg' \in Settings /\ \A h \in Restorable \ {Cur.f} : cfg'[h] = cfg[h]
      /\ Cur.f # "pruner" => cfg'["cron"] = cfg["cron"]
  BY <1>1, <1>2, <1>6, <1>7, WrittenFacts DEF TypeOK
<1>9. UNCHANGED <<saved, read, restored, misread>>
  BY <1>1 DEF keeping
<1>10. phase' = "run" /\ afterFailed' = afterFailed
  BY <1>1, <1>2, <1>4, MoveFacts
<1>11. TypeOK'
  BY <1>1, <1>2, <1>8, <1>9, TypeStep DEF TypeOK
<1>12. ReadInv'
  BY <1>1, <1>2, <1>9, ReadStep
<1>13. AfterInv'
  BY <1>1, <1>2, <1>9, <1>10, AfterStep
<1>14. ValueInv'
  <2>1. restored' = {} /\ orig' = orig
    BY <1>1, <1>2, <1>4, <1>9 DEF AfterInv
  <2>2. \A f \in Restorable \ read' :
          cfg'[f] = orig'[f] /\ (f = "pruner" => cfg'["cron"] = orig'["cron"])
    BY <1>2, <1>4, <1>7, <1>8, <1>9, <2>1 DEF ValueInv, AfterInv
  <2>3. orig'["cron"] = CronOf(orig'["pruner"])
    BY <1>2, <2>1 DEF ValueInv
  <2>4. \A f \in read' \ misread' :
          saved'[f] = IF f = "tls" THEN Eff("tls", orig["tls"]) ELSE orig[f]
    BY <1>2, <1>9 DEF ValueInv
  <2>5. \A f \in (Restorable \ read') \cup misread' : saved'[f] = "unset"
    BY <1>2, <1>9 DEF ValueInv
  <2> QED BY <2>1, <2>2, <2>3, <2>4, <2>5 DEF ValueInv
<1>15. IInv'
  BY <1>11, <1>12, <1>13, <1>14 DEF IInv
<1> QED BY <1>1, <1>4, <1>7, <1>8, <1>10, <1>15

\* A setting is restored once, in the cleanup; a guarded one has been read.
LEMMA RestoreStep ==
  ASSUME IInv, Restore
  PROVE  /\ IInv'
         /\ phase = "after" /\ Cur.f \in Restorable \ restored /\ (Cur.f \in Guarded => Cur.f \in read)
         /\ UNCHANGED <<saved, read, misread>> /\ ~afterFailed
         /\ cfg' \in Settings /\ \A g \in Restorable \ {Cur.f} : cfg'[g] = cfg[g]
         /\ \/ /\ restored' = restored \cup {Cur.f} /\ ~afterFailed'
               /\ cfg'[Cur.f] = Known(Cur.f, GoBackTo(Cur.f))
            \/ restored' = restored /\ afterFailed'
<1> DEFINE after == container.after
<1>1. /\ AtOp /\ Cur.op = "restore" /\ UNCHANGED <<container, orig, saved, read, misread, operator, copied>>
      /\ Fine \/ Fault
      /\ \/ Ok /\ cfg' = Written(Cur.f, GoBackTo(Cur.f)) /\ restored' = restored \cup {Cur.f}
         \/ Fail /\ cfg' \in {cfg, Written(Cur.f, GoBackTo(Cur.f))} /\ restored' = restored
  BY DEF Restore, On, AtOp, Same
<1>2. TypeOK /\ ReadInv /\ AfterInv /\ ValueInv
  BY DEF IInv
<1>3. container \in Containers /\ phase \in {"run", "after"}
  BY <1>1, <1>2, CurFacts
<1>4. phase = "after" /\ at \in 1..Len(after) /\ Cur = after[at]
  <2>1. phase = "run" => Cur.op # "restore"
    BY <1>1, <1>2, <1>3, CurFacts, ScriptTypes DEF ReadFirst
  <2> QED BY <1>1, <1>2, <1>3, <2>1, CurFacts
<1>5. /\ Cur.f \in Restorable
      /\ \A j \in 1..Len(after) : Of(after[j], "restore", Cur.f) => j = at
  BY <1>1, <1>3, <1>4, ScriptTypes DEF RestoreRead
<1>6. Cur.f \notin restored
  <2> SUFFICES ASSUME Cur.f \in restored PROVE FALSE
    OBVIOUS
  <2>1. PICK j \in 1..(at - 1) : Of(after[j], "restore", Cur.f)
    BY <1>2, <1>4 DEF AfterInv
  <2>2. j \in 1..Len(after) /\ j # at
    BY <1>3, <1>4, ScriptTypes
  <2> QED BY <1>5, <2>1, <2>2
<1>7. Cur.f \in Guarded => Cur.f \in read
  BY <1>1, <1>2, <1>4 DEF AfterInv
<1>8. GoBackTo(Cur.f) \in ValuesOf(Cur.f)
  <2>1. Cur.f \in Fields /\ saved[Cur.f] \in ValuesOf(Cur.f)
    BY <1>2, <1>5 DEF TypeOK, Settings, Restorable, Fields
  <2> QED BY <2>1, ValueTypes DEF GoBackTo
<1>9. /\ cfg' \in Settings /\ \A h \in Restorable \ {Cur.f} : cfg'[h] = cfg[h]
      /\ Cur.f # "pruner" => cfg'["cron"] = cfg["cron"]
      /\ Ok => /\ cfg'[Cur.f] = Known(Cur.f, GoBackTo(Cur.f)) \/ restored' = restored
               /\ (Cur.f = "pruner" => cfg'["cron"] = CronOf(GoBackTo(Cur.f))) \/ restored' = restored
  BY <1>1, <1>2, <1>5, <1>8, WrittenFacts DEF TypeOK, CronOf
<1>10. ~afterFailed
  BY <1>2, <1>4 DEF AfterInv
<1>11. Ok \/ Fail
  BY <1>1
<1>12. \/ Ok /\ phase' = "after" /\ afterFailed' = afterFailed /\ restored' = restored \cup {Cur.f}
       \/ Fail /\ phase' = "done" /\ afterFailed' = TRUE /\ restored' = restored
  BY <1>1, <1>4 DEF Ok, Fail
<1>13. TypeOK'
  <2>1. saved' \in Settings /\ read' \subseteq Restorable /\ misread' \subseteq read' /\ copied' \in BOOLEAN
    BY <1>1, <1>2 DEF TypeOK
  <2>2. restored' \subseteq Restorable
    BY <1>2, <1>5, <1>12 DEF TypeOK
  <2> QED BY <1>1, <1>2, <1>9, <1>11, <2>1, <2>2, TypeStep
<1>14. ReadInv'
  BY <1>1, <1>2, <1>11, ReadStep
<1>15. AfterInv'
  BY <1>1, <1>2, <1>11, <1>12, AfterStep
<1>16. ValueInv'
  <2>1. phase' # "run" /\ orig' = orig
    BY <1>1, <1>12
  <2>2. \A f \in restored' : GoBackTo(f)' = GoBackTo(f)
    BY <1>1 DEF GoBackTo
  <2>3. ASSUME NEW f \in restored'
        PROVE  cfg'[f] = Known(f, GoBackTo(f)) /\ (f = "pruner" => cfg'["cron"] = CronOf(GoBackTo(f)))
    <3>1. CASE f = Cur.f
      <4>1. Ok /\ restored' # restored
        BY <1>6, <1>12, <2>3, <3>1
      <4> QED BY <1>9, <3>1, <4>1
    <3>2. CASE f # Cur.f
      <4>1. f \in restored /\ f \in Restorable
        BY <1>2, <1>12, <2>3, <3>2 DEF TypeOK
      <4>2. cfg'[f] = cfg[f] /\ (f = "pruner" => cfg'["cron"] = cfg["cron"])
        BY <1>9, <3>2, <4>1
      <4> QED BY <1>2, <4>1, <4>2 DEF ValueInv
    <3> QED BY <3>1, <3>2
  <2>4. orig'["cron"] = CronOf(orig'["pruner"])
    BY <1>2, <2>1 DEF ValueInv
  <2>5. \A f \in read' \ misread' :
          saved'[f] = IF f = "tls" THEN Eff("tls", orig["tls"]) ELSE orig[f]
    BY <1>1, <1>2 DEF ValueInv
  <2>6. \A f \in (Restorable \ read') \cup misread' : saved'[f] = "unset"
    BY <1>1, <1>2 DEF ValueInv
  <2>7. restored' \cap Guarded \subseteq read'
    BY <1>1, <1>2, <1>7, <1>12 DEF ValueInv
  <2>8. ASSUME ~afterFailed', NEW f \in Restorable \ (read' \cup restored')
        PROVE  cfg'[f] = orig'[f] /\ (f = "pruner" => cfg'["cron"] = orig'["cron"])
    <3>1. restored' = restored \cup {Cur.f}
      BY <1>12, <2>8
    <3>2. f # Cur.f /\ f \in Restorable \ (read \cup restored)
      BY <1>1, <2>8, <3>1
    <3>3. cfg'[f] = cfg[f] /\ (f = "pruner" => cfg'["cron"] = cfg["cron"])
      BY <1>9, <3>2
    <3> QED BY <1>2, <1>10, <2>1, <3>2, <3>3 DEF ValueInv
  <2> QED BY <2>1, <2>2, <2>3, <2>4, <2>5, <2>6, <2>7, <2>8 DEF ValueInv
<1>17. IInv'
  BY <1>13, <1>14, <1>15, <1>16 DEF IInv
<1>18. \/ /\ restored' = restored \cup {Cur.f} /\ ~afterFailed'
          /\ cfg'[Cur.f] = Known(Cur.f, GoBackTo(Cur.f))
       \/ restored' = restored /\ afterFailed'
  <2>1. CASE Fail /\ phase' = "done" /\ afterFailed' = TRUE /\ restored' = restored
    BY <2>1
  <2>2. CASE Ok /\ phase' = "after" /\ afterFailed' = afterFailed /\ restored' = restored \cup {Cur.f}
    <3>1. restored' # restored
      BY <1>6, <2>2
    <3> QED BY <1>9, <1>10, <2>2, <3>1
  <2> QED BY <1>12, <2>1, <2>2
<1> QED BY <1>1, <1>4, <1>5, <1>6, <1>7, <1>9, <1>10, <1>17, <1>18

\* The end of the script: no setting was read without a cleanup that restores
\* it, and a cleanup that starts finds the guarded settings read.
LEMMA StartAfterStep == ASSUME IInv, StartAfter PROVE IInv'
<1> DEFINE ops   == container.ops
           after == container.after
<1>1. /\ phase = "run" /\ at > Len(ops) /\ at' = 1 /\ phase' \in {"after", "done"}
      /\ phase' = "after" => container.afterAll \/ read # {}
      /\ phase' = "done" => after = <<>> \/ read = {}
      /\ UNCHANGED <<container, orig, cfg, keeping, outcome, operator, copied, faults>>
  BY DEF StartAfter, Same, Fine
<1>2. TypeOK /\ ReadInv /\ AfterInv /\ ValueInv /\ container \in Containers
  BY DEF IInv, TypeOK
<1>3. /\ Len(ops) \in Nat /\ Len(after) \in Nat /\ (after = <<>> => Len(after) = 0)
      /\ ReadFirst(container) /\ RestoreRead(container)
  BY <1>2, ScriptTypes
<1>4. UNCHANGED <<saved, read, restored, misread, failed, afterFailed, seen, shown, ready, sets>>
  BY <1>1 DEF keeping, outcome, operator
<1>5. TypeOK'
  <2>1. at' \in Nat \ {0} /\ (phase' # "done" => at' <= Len(Ops') + 1)
    BY <1>1, <1>3 DEF Ops
  <2> QED BY <1>1, <1>2, <1>4, <2>1 DEF TypeOK
<1>6. ReadInv'
  BY <1>1, <1>2, <1>4 DEF ReadInv
<1>7. restored' = {} /\ ~afterFailed'
  BY <1>1, <1>2, <1>4 DEF AfterInv
<1>8. \A f \in read : \E j \in 1..Len(ops) : Of(ops[j], "get", f)
  BY <1>2 DEF ReadInv
<1>9. ASSUME phase' = "after", NEW j \in 1..Len(after), after[j].op = "restore", after[j].f \in Guarded
      PROVE  after[j].f \in read
  <2>1. CASE container.afterAll
    <3>1. after[j].f # "tls" /\ Len(ops) > 0 /\ Of(ops[1], "get", after[j].f)
      BY <1>3, <1>9, <2>1 DEF RestoreRead
    <3>2. at > 1
      BY <1>1, <1>2, <1>3, <3>1 DEF TypeOK
    <3> QED BY <1>1, <1>2, <3>1, <3>2 DEF ReadInv, Of
  <2>2. CASE ~container.afterAll
    <3>1. \A i \in 1..Len(ops) : ops[i].op = "get" => ops[i].f = after[j].f
      BY <1>3, <1>9, <2>2 DEF RestoreRead
    <3>2. PICK f \in read : TRUE
      BY <1>1, <1>9, <2>2
    <3>3. f = after[j].f
      BY <1>8, <3>1, <3>2 DEF Of
    <3> QED BY <3>2, <3>3
  <2> QED BY <2>1, <2>2
<1>10. phase' = "done" => read = {}
  <2> SUFFICES ASSUME after = <<>>, NEW f \in read PROVE FALSE
    BY <1>1
  <2>1. \E j \in 1..Len(after) : Of(after[j], "restore", f)
    BY <1>3, <1>8 DEF ReadFirst, Of
  <2> QED BY <1>3, <2>1
<1>11. AfterInv'
  BY <1>1, <1>4, <1>7, <1>9, <1>10 DEF AfterInv
<1>12. ValueInv'
  BY <1>1, <1>2, <1>4, ValueStep
<1> QED BY <1>5, <1>6, <1>11, <1>12 DEF IInv

\* The end of the cleanup: everything read has been restored.
LEMMA FinishedStep == ASSUME IInv, Finished PROVE IInv'
<1> DEFINE ops   == container.ops
           after == container.after
<1>1. /\ phase = "after" /\ at > Len(after) /\ phase' = "done"
      /\ UNCHANGED <<container, orig, at, cfg, keeping, outcome, operator, copied, faults>>
  BY DEF Finished, Same, Fine
<1>2. TypeOK /\ ReadInv /\ AfterInv /\ ValueInv /\ container \in Containers
  BY DEF IInv, TypeOK
<1>3. Len(after) \in Nat /\ ReadFirst(container) /\ at \in Nat
  BY <1>2, ScriptTypes DEF TypeOK
<1>4. UNCHANGED <<saved, read, restored, misread, failed, afterFailed, seen, shown, ready, sets>>
  BY <1>1 DEF keeping, outcome, operator
<1>5. TypeOK'
  BY <1>1, <1>2, <1>4 DEF TypeOK
<1>6. ReadInv'
  BY <1>1, <1>2, <1>4 DEF ReadInv
<1>7. read \subseteq restored
  <2> SUFFICES ASSUME NEW f \in read PROVE f \in restored
    OBVIOUS
  <2>1. PICK i \in 1..Len(ops) : Of(ops[i], "get", f)
    BY <1>2 DEF ReadInv
  <2>2. PICK j \in 1..Len(after) : Of(after[j], "restore", f)
    BY <1>3, <2>1 DEF ReadFirst, Of
  <2>3. j \in 1..(at - 1)
    BY <1>1, <1>3
  <2> QED BY <1>1, <1>2, <2>2, <2>3 DEF AfterInv, Of
<1>8. AfterInv'
  BY <1>1, <1>4, <1>7 DEF AfterInv
<1>9. ValueInv'
  BY <1>1, <1>2, <1>4, ValueStep
<1> QED BY <1>5, <1>6, <1>8, <1>9 DEF IInv

\* A hosted cluster is left before anything is read.
LEMMA HostedStep == ASSUME IInv, Hosted PROVE IInv'
<1> DEFINE ops == container.ops
<1>1. /\ AtOp /\ Cur.op = "hosted" /\ UNCHANGED <<container, orig, cfg, keeping, operator, copied, faults>>
      /\ Ok \/ (phase' = "done" /\ UNCHANGED <<at, outcome>>)
  BY DEF Hosted, On, AtOp, Same, Fine
<1>2. TypeOK /\ ReadInv /\ AfterInv /\ ValueInv /\ copied \in BOOLEAN
  BY DEF IInv, TypeOK
<1>3. CASE Ok
  BY <1>1, <1>2, <1>3, AssertionStep DEF Fine
<1>4. CASE phase' = "done" /\ UNCHANGED <<at, outcome>>
  <2>1. container \in Containers /\ phase \in {"run", "after"}
    BY <1>1, <1>2, CurFacts
  <2>2. phase = "run" /\ at \in 1..Len(ops) /\ Cur = ops[at]
    <3>1. phase = "after" => Cur.op \in {"restore", "wait"}
      BY <1>1, <1>2, <2>1, CurFacts, ScriptTypes DEF RestoreRead
    <3> QED BY <1>1, <1>2, <2>1, <3>1, CurFacts
  <2>3. \A j \in 1..at : ops[j].op # "get"
    BY <1>1, <2>1, <2>2, ScriptTypes DEF ReadFirst
  <2>4. read = {}
    <3> SUFFICES ASSUME NEW f \in read PROVE FALSE
      OBVIOUS
    <3>1. PICK j \in 1..Len(ops) : Of(ops[j], "get", f) /\ j < at
      BY <1>2, <2>2 DEF ReadInv
    <3>2. j \in 1..at
      BY <2>2, <3>1
    <3> QED BY <2>3, <3>1, <3>2 DEF Of
  <2>5. UNCHANGED <<saved, read, restored, misread, failed, afterFailed, seen, shown, ready, sets>>
    BY <1>1, <1>4 DEF keeping, outcome, operator
  <2>6. TypeOK'
    BY <1>1, <1>2, <1>4, <2>5 DEF TypeOK
  <2>7. ReadInv'
    BY <1>1, <1>2, <1>4, <2>5 DEF ReadInv
  <2>8. AfterInv'
    BY <1>2, <1>4, <2>4, <2>5 DEF AfterInv
  <2>9. ValueInv'
    BY <1>1, <1>2, <1>4, <2>5, ValueStep
  <2> QED BY <2>6, <2>7, <2>8, <2>9 DEF IInv
<1> QED BY <1>1, <1>3, <1>4

\* The operator changes nothing the test keeps.
LEMMA OperatorStep == ASSUME IInv, Operator PROVE IInv' /\ UNCHANGED Test
<1>1. UNCHANGED Test
  BY DEF Operator, Notice, Reconcile, Settle
<1>2. UNCHANGED <<container, phase, at, cfg, orig, keeping, saved, read, restored, misread,
                  outcome, failed, afterFailed, copied, faults>>
  BY <1>1 DEF Test, settings, keeping, outcome
<1>3. TypeOK /\ ReadInv /\ AfterInv /\ ValueInv
  BY DEF IInv
<1>4. \A p \in Parts : Target(p, seen) \in SUBSET FieldValues
  <2>1. \A v \in FieldValues : Eff("tls", v) \in FieldValues /\ Eff("mtls", v) \in FieldValues
    BY DEF Eff, FieldValues, Flags, Profiles
  <2>2. seen["tls"] \in FieldValues /\ seen["mtls"] \in FieldValues /\ "false" \in FieldValues
    BY <1>3 DEF TypeOK, Settings, Fields, FieldValues, Flags
  <2> QED BY <2>1, <2>2 DEF Target
<1>5. seen' \in Settings /\ ready' \in BOOLEAN /\ sets' \in BOOLEAN
  BY <1>3 DEF TypeOK, Operator, Notice, Reconcile, Settle
<1>6. shown' \in [Parts -> SUBSET FieldValues]
  <2>1. shown \in [Parts -> SUBSET FieldValues]
    BY <1>3 DEF TypeOK
  <2>2. CASE Notice \/ Settle
    BY <2>1, <2>2 DEF Notice, Settle
  <2>3. CASE \E p \in Parts : Reconcile(p)
    <3>1. PICK p \in Parts : Reconcile(p)
      BY <2>3
    <3>2. PICK S \in SUBSET FieldValues : shown' = [shown EXCEPT ![p] = S]
      BY <1>4, <2>1, <3>1 DEF Reconcile
    <3> QED BY <2>1, <3>2
  <2> QED BY <2>2, <2>3 DEF Operator
<1>7. TypeOK'
  <2>1. Len(Ops') = Len(Ops)
    BY <1>2 DEF Ops
  <2> QED BY <1>2, <1>3, <1>5, <1>6, <2>1 DEF TypeOK
<1>8. ReadInv' /\ AfterInv'
  BY <1>2, <1>3 DEF ReadInv, AfterInv
<1>9. ValueInv'
  BY <1>2, <1>3, ValueStep
<1> QED BY <1>1, <1>7, <1>8, <1>9 DEF IInv

\* Polls and handshakes are assertions.
LEMMA PollStep ==
  ASSUME IInv, Poll \/ TLSHandshake \/ PlainHandshake
  PROVE  IInv' /\ UNCHANGED <<cfg, keeping>> /\ AtOp /\ (Ok \/ Fail)
<1>1. /\ AtOp /\ UNCHANGED <<container, orig, cfg, keeping, operator>>
      /\ Cur.op \notin {"get", "restore"}
      /\ Ok \/ Fail
      /\ Fine \/ Fault
  BY DEF Poll, TLSHandshake, PlainHandshake, On, AtOp, Same
<1>2. copied \in BOOLEAN
  BY DEF IInv, TypeOK
<1>3. copied' \in BOOLEAN
  BY <1>2 DEF Poll, TLSHandshake, PlainHandshake
<1> QED BY <1>1, <1>3, AssertionStep

LEMMA NextInv == IInv /\ [Next]_vars => IInv'
<1> SUFFICES ASSUME IInv, [Next]_vars PROVE IInv'
  OBVIOUS
<1>1. CASE UNCHANGED vars
  <2>1. UNCHANGED <<container, phase, at, cfg, orig, saved, read, restored, misread, failed,
                    afterFailed, seen, shown, ready, sets, copied, faults, keeping>>
    BY <1>1 DEF vars, settings, keeping, outcome, operator
  <2>2. TypeOK'
    <3>1. Len(Ops') = Len(Ops)
      BY <2>1 DEF Ops
    <3> QED BY <2>1, <3>1 DEF IInv, TypeOK
  <2>3. ReadInv' /\ AfterInv'
    BY <2>1 DEF IInv, ReadInv, AfterInv
  <2>4. ValueInv'
    BY <2>1, ValueStep DEF IInv
  <2> QED BY <2>2, <2>3, <2>4 DEF IInv
<1>2. CASE Done
  BY <1>1, <1>2 DEF Done
<1>3. CASE Operator
  BY <1>3, OperatorStep
<1>4. CASE Steps
  BY <1>4, HostedStep, GetStep, SetStep, RestoreStep, PollStep, StartAfterStep, FinishedStep
     DEF Steps
<1> QED BY <1>1, <1>2, <1>3, <1>4 DEF Next

-----------------------------------------------------------------------------
(***************************************************************************)
(* Theorems.                                                               *)
(***************************************************************************)
LEMMA Invariance == Spec => []IInv
BY InitInv, NextInv, PTL DEF Spec

\* Every variable has its type in every reachable state.
THEOREM TypeCorrect == Spec => []TypeOK
<1>1. IInv => TypeOK
  BY DEF IInv
<1> QED BY <1>1, Invariance, PTL

\* A container whose cleanup reports no failure leaves every setting as it was,
\* whatever failed before (AfterAll of mtls_test.go, RestoreOriginalPrunerState,
\* PatchClusterTLSProfile); one whose reading failed, an mTLS flag never read
\* and a custom TLS profile may be at their default instead.
THEOREM SettingsRestored == Spec => []RestoredUnlessReported
<1>1. IInv => RestoredUnlessReported
  <2> SUFFICES ASSUME IInv, phase = "done", ~afterFailed, NEW f \in Restorable
               PROVE  Kept(f) \/ (f \in Excepted /\ AtDefault(f))
    BY DEF RestoredUnlessReported
  <2>1. read \subseteq restored
    BY DEF IInv, AfterInv
  <2>2. /\ orig["tls"] \in Profiles /\ orig["pruner"] \in Flags /\ orig["mtls"] \in Flags
        /\ orig["cron"] = CronOf(orig["pruner"])
    BY DEF IInv, TypeOK, ValueInv, Settings, ValuesOf, Fields
  <2>3. CASE f \notin restored
    <3>1. cfg[f] = orig[f] /\ (f = "pruner" => cfg["cron"] = orig["cron"])
      BY <2>1, <2>3 DEF IInv, ValueInv
    <3> QED BY <3>1 DEF Kept
  <2>4. CASE f \in restored
    <3>1. /\ cfg[f] = Known(f, Eff(f, saved[f]))
          /\ f = "pruner" => cfg["cron"] = CronOf(Eff(f, saved[f]))
      BY <2>4 DEF IInv, ValueInv, GoBackTo
    <3>2. CASE f \in read \ misread
      <4>1. saved[f] = IF f = "tls" THEN Eff("tls", orig["tls"]) ELSE orig[f]
        BY <3>2 DEF IInv, ValueInv
      <4>2. CASE f = "tls"
        BY <2>2, <3>1, <4>1, <4>2 DEF Kept, AtDefault, Excepted, Known, Eff, Profiles
      <4>3. CASE f # "tls"
        <5>1. cfg[f] = Eff(f, orig[f])
          BY <3>1, <4>1, <4>3 DEF Known
        <5>2. Eff(f, cfg[f]) = Eff(f, orig[f])
          BY <4>3, <5>1 DEF Eff
        <5>3. f = "pruner" => cfg["cron"] = orig["cron"]
          BY <2>2, <3>1, <4>1, <4>3 DEF CronOf, Eff, Flags
        <5> QED BY <5>2, <5>3 DEF Kept
      <4> QED BY <4>2, <4>3
    <3>3. CASE f \notin read \/ f \in misread
      <4>1. saved[f] = "unset"
        BY <3>3 DEF IInv, ValueInv
      <4>2. f \in Excepted
        BY <2>4, <3>3 DEF IInv, ValueInv, Excepted, Guarded, Restorable
      <4>3. cfg[f] = Eff(f, "unset") /\ (f = "pruner" => cfg["cron"] = "true")
        BY <3>1, <4>1 DEF Known, Eff, CronOf
      <4> QED BY <4>2, <4>3 DEF AtDefault, Eff
    <3> QED BY <3>2, <3>3
  <2> QED BY <2>3, <2>4
<1> QED BY <1>1, Invariance, PTL

\* What one step does to a guarded setting: the five steps of SettingsGuard.
LEMMA GuardSteps ==
  ASSUME IInv, [Next]_vars, NEW f \in Guarded
  PROVE  LET same == saved'[f] = saved[f]
             to(q) == GuardPhase(f) = "held" /\ GuardPhase(f)' = q /\ same
         IN \/ same /\ cfg'[f] = cfg[f] /\ GuardPhase(f)' = GuardPhase(f)
            \/ /\ GuardPhase(f) = "idle" /\ GuardPhase(f)' = "held" /\ cfg'[f] = cfg[f]
               /\ saved'[f] \in {"unset", IF f = "tls" THEN Eff("tls", cfg["tls"]) ELSE cfg[f]}
            \/ to("held")
            \/ to("restored") /\ cfg'[f] = Known(f, GoBackTo(f))
            \/ to("reported")
<1>1. /\ f \in Restorable /\ f \in Fields
      /\ saved \in [Fields -> FieldValues]
      /\ restored \subseteq Restorable
      /\ afterFailed => phase = "done"
      /\ phase = "run" => restored = {}
      /\ afterFailed \in BOOLEAN
  BY DEF IInv, TypeOK, Settings, Guarded, Restorable, Fields, AfterInv
<1>2. CASE UNCHANGED <<cfg, saved, read, restored>> /\ afterFailed' = afterFailed
  <2>1. GuardPhase(f)' = GuardPhase(f)
    BY <1>2 DEF GuardPhase
  <2> QED BY <1>2, <2>1
<1>3. CASE UNCHANGED <<cfg, saved, read, restored>> /\ phase # "done" /\ afterFailed'
  <2>1. ~afterFailed
    BY <1>1, <1>3
  <2>2. CASE f \in read /\ f \notin restored
    <3>1. GuardPhase(f) = "held" /\ GuardPhase(f)' = "reported"
      BY <1>3, <2>1, <2>2 DEF GuardPhase
    <3> QED BY <1>3, <3>1
  <2>3. CASE ~(f \in read /\ f \notin restored)
    <3>1. GuardPhase(f)' = GuardPhase(f)
      BY <1>3, <2>3 DEF GuardPhase
    <3> QED BY <1>3, <3>1
  <2> QED BY <2>2, <2>3
<1>4. CASE Get
  <2>1. /\ phase = "run" /\ Cur.f \notin read /\ cfg' = cfg /\ Cur.f \in Restorable
        /\ restored' = restored /\ afterFailed' = afterFailed
        /\ \/ read' = read /\ saved' = saved
           \/ /\ read' = read \cup {Cur.f}
              /\ \E v \in {"unset", IF Cur.f = "tls" THEN Eff("tls", cfg["tls"]) ELSE cfg[Cur.f]} :
                   saved' = [saved EXCEPT ![Cur.f] = v]
    BY <1>4, GetStep
  <2>2. CASE read' = read /\ saved' = saved
    BY <1>2, <2>1, <2>2
  <2>3. CASE read' = read \cup {Cur.f} /\ f # Cur.f
    <3>1. GuardPhase(f)' = GuardPhase(f)
      BY <2>1, <2>3 DEF GuardPhase
    <3>2. saved'[f] = saved[f]
      BY <1>1, <2>1, <2>3
    <3> QED BY <2>1, <3>1, <3>2
  <2>4. CASE read' = read \cup {Cur.f} /\ f = Cur.f
    <3>1. ~afterFailed /\ restored = {} /\ f \notin read
      BY <1>1, <2>1, <2>4
    <3>2. GuardPhase(f) = "idle" /\ GuardPhase(f)' = "held"
      BY <2>1, <2>4, <3>1 DEF GuardPhase
    <3>3. saved'[f] \in {"unset", IF f = "tls" THEN Eff("tls", cfg["tls"]) ELSE cfg[f]}
      BY <1>1, <2>1, <2>4, <3>1
    <3> QED BY <2>1, <3>2, <3>3
  <2> QED BY <2>1, <2>2, <2>3, <2>4
<1>5. CASE Set
  <2>1. /\ phase = "run" /\ Cur.f \in read /\ UNCHANGED <<saved, read, restored, afterFailed>>
        /\ \A g \in Restorable \ {Cur.f} : cfg'[g] = cfg[g]
    BY <1>5, SetStep DEF keeping
  <2>2. GuardPhase(f)' = GuardPhase(f)
    BY <2>1 DEF GuardPhase
  <2>3. CASE f = Cur.f
    <3>1. GuardPhase(f) = "held"
      BY <1>1, <2>1, <2>3 DEF GuardPhase
    <3> QED BY <2>1, <2>2, <3>1
  <2>4. CASE f # Cur.f
    BY <1>1, <2>1, <2>2, <2>4
  <2> QED BY <2>3, <2>4
<1>6. CASE Restore
  <2>1. /\ Cur.f \in Restorable \ restored /\ (Cur.f \in Guarded => Cur.f \in read)
        /\ UNCHANGED <<saved, read>> /\ ~afterFailed
        /\ \A g \in Restorable \ {Cur.f} : cfg'[g] = cfg[g]
        /\ \/ /\ restored' = restored \cup {Cur.f} /\ ~afterFailed'
              /\ cfg'[Cur.f] = Known(Cur.f, GoBackTo(Cur.f))
           \/ restored' = restored /\ afterFailed'
    BY <1>6, RestoreStep
  <2>2. CASE f = Cur.f
    <3>1. GuardPhase(f) = "held"
      BY <2>1, <2>2 DEF GuardPhase
    <3>2. GuardPhase(f)' = "reported" \/ (GuardPhase(f)' = "restored" /\ cfg'[f] = Known(f, GoBackTo(f)))
      BY <2>1, <2>2 DEF GuardPhase
    <3> QED BY <2>1, <3>1, <3>2
  <2>3. CASE f # Cur.f
    <3>1. cfg'[f] = cfg[f] /\ saved'[f] = saved[f]
      BY <1>1, <2>1, <2>3
    <3>2. \/ GuardPhase(f)' = GuardPhase(f)
          \/ GuardPhase(f) = "held" /\ GuardPhase(f)' = "reported"
      BY <2>1, <2>3 DEF GuardPhase
    <3> QED BY <3>1, <3>2
  <2> QED BY <2>2, <2>3
<1>7. CASE Poll \/ TLSHandshake \/ PlainHandshake
  <2>1. UNCHANGED <<cfg, saved, read, restored>> /\ AtOp /\ container' = container
    BY <1>7, PollStep DEF keeping, Poll, TLSHandshake, PlainHandshake, Same
  <2>2. Ok \/ Fail
    BY <1>7, PollStep
  <2>3. phase # "done" /\ (afterFailed' = afterFailed \/ afterFailed' = TRUE)
    BY <2>1, <2>2 DEF Ok, Fail, AtOp
  <2> QED BY <1>2, <1>3, <2>1, <2>3
<1>8. CASE Hosted \/ StartAfter \/ Finished
  <2>1. UNCHANGED <<cfg, saved, read, restored>> /\ afterFailed' = afterFailed
    BY <1>8 DEF Hosted, StartAfter, Finished, keeping, outcome, Ok
  <2> QED BY <1>2, <2>1
<1>9. CASE Operator
  <2>1. UNCHANGED <<cfg, saved, read, restored>> /\ afterFailed' = afterFailed
    BY <1>9, OperatorStep DEF Test, settings, keeping, outcome
  <2> QED BY <1>2, <2>1
<1>10. CASE Done \/ UNCHANGED vars
  <2>1. UNCHANGED <<cfg, saved, read, restored>> /\ afterFailed' = afterFailed
    BY <1>10 DEF Done, vars, settings, keeping, outcome
  <2> QED BY <1>2, <2>1
<1> QED BY <1>4, <1>5, <1>6, <1>7, <1>8, <1>9, <1>10 DEF Next, Steps

\* The container implements the safety part of SettingsGuard for the pruner.
THEOREM PrunerGuarded == Spec => PrunerGuard!SafeSpec
<1>1. Init => PrunerGuard!Init
  <2> SUFFICES ASSUME Init PROVE PrunerGuard!Init
    OBVIOUS
  <2>1. IInv /\ read = {} /\ saved["pruner"] = "unset"
    BY InitInv DEF Init, Fields
  <2>2. cfg["pruner"] \in Flags
    BY <2>1 DEF IInv, TypeOK, Settings, ValuesOf, Fields
  <2> QED BY <2>1, <2>2 DEF PrunerGuard!Init, GuardPhase, Eff, Flags
<1>2. IInv /\ IInv' /\ [Next]_vars => [PrunerGuard!Next]_(PrunerGuard!guard)
  <2> SUFFICES ASSUME IInv, IInv', [Next]_vars PROVE [PrunerGuard!Next]_(PrunerGuard!guard)
    OBVIOUS
  <2>1. /\ cfg["pruner"] \in Flags /\ saved["pruner"] \in Flags
        /\ cfg'["pruner"] \in Flags /\ saved'["pruner"] \in Flags
    BY DEF IInv, TypeOK, Settings, ValuesOf, Fields
  <2>2. "pruner" \in Guarded
    BY DEF Guarded
  <2>3. Known("pruner", GoBackTo("pruner")) = Eff("pruner", saved["pruner"])
    BY DEF Known, GoBackTo
  <2>4. CASE /\ saved'["pruner"] = saved["pruner"] /\ cfg'["pruner"] = cfg["pruner"]
             /\ GuardPhase("pruner")' = GuardPhase("pruner")
    BY <2>4 DEF PrunerGuard!guard, Eff
  <2>5. CASE /\ GuardPhase("pruner") = "idle" /\ GuardPhase("pruner")' = "held"
             /\ cfg'["pruner"] = cfg["pruner"] /\ saved'["pruner"] \in {"unset", cfg["pruner"]}
    BY <2>5 DEF PrunerGuard!Next, PrunerGuard!Save, Eff
  <2>6. CASE GuardPhase("pruner") = "held" /\ GuardPhase("pruner")' = "held" /\ saved'["pruner"] = saved["pruner"]
    BY <2>1, <2>6 DEF PrunerGuard!Next, PrunerGuard!Change, Eff, Flags
  <2>7. CASE /\ GuardPhase("pruner") = "held" /\ GuardPhase("pruner")' = "restored"
             /\ saved'["pruner"] = saved["pruner"] /\ cfg'["pruner"] = Known("pruner", GoBackTo("pruner"))
    BY <2>1, <2>3, <2>7 DEF PrunerGuard!Next, PrunerGuard!Restore, Eff, Flags
  <2>8. CASE GuardPhase("pruner") = "held" /\ GuardPhase("pruner")' = "reported" /\ saved'["pruner"] = saved["pruner"]
    BY <2>1, <2>8 DEF PrunerGuard!Next, PrunerGuard!Report, Eff, Flags
  <2> QED BY <2>2, <2>4, <2>5, <2>6, <2>7, <2>8, GuardSteps
<1> QED BY <1>1, <1>2, Invariance, PTL DEF Spec, PrunerGuard!SafeSpec

\* The container implements the safety part of SettingsGuard for the TLS profile.
THEOREM ProfileGuarded == Spec => TLSGuard!SafeSpec
<1> DEFINE back == IF saved["tls"] = "Custom" THEN "Intermediate" ELSE Eff("tls", saved["tls"])
<1>1. Init => TLSGuard!Init
  <2> SUFFICES ASSUME Init PROVE TLSGuard!Init
    OBVIOUS
  <2>1. IInv /\ read = {} /\ saved["tls"] = "unset"
    BY InitInv DEF Init, Fields
  <2>2. cfg["tls"] \in Profiles
    BY <2>1 DEF IInv, TypeOK, Settings, ValuesOf, Fields
  <2> QED BY <2>1, <2>2 DEF TLSGuard!Init, GuardPhase, Eff, Profiles
<1>2. IInv /\ IInv' /\ [Next]_vars => [TLSGuard!Next]_(TLSGuard!guard)
  <2> SUFFICES ASSUME IInv, IInv', [Next]_vars PROVE [TLSGuard!Next]_(TLSGuard!guard)
    OBVIOUS
  <2>1. /\ cfg["tls"] \in Profiles /\ saved["tls"] \in Profiles
        /\ cfg'["tls"] \in Profiles /\ saved'["tls"] \in Profiles
    BY DEF IInv, TypeOK, Settings, ValuesOf, Fields
  <2>2. "tls" \in Guarded
    BY DEF Guarded
  <2>3. Eff("tls", Known("tls", GoBackTo("tls"))) = back
    BY <2>1 DEF Known, GoBackTo, Eff, Profiles
  <2>4. CASE /\ saved'["tls"] = saved["tls"] /\ cfg'["tls"] = cfg["tls"]
             /\ GuardPhase("tls")' = GuardPhase("tls")
    BY <2>4 DEF TLSGuard!guard, Eff
  <2>5. CASE /\ GuardPhase("tls") = "idle" /\ GuardPhase("tls")' = "held"
             /\ cfg'["tls"] = cfg["tls"] /\ saved'["tls"] \in {"unset", Eff("tls", cfg["tls"])}
    BY <2>1, <2>5 DEF TLSGuard!Next, TLSGuard!Save, Eff, Profiles
  <2>6. CASE GuardPhase("tls") = "held" /\ GuardPhase("tls")' = "held" /\ saved'["tls"] = saved["tls"]
    BY <2>1, <2>6 DEF TLSGuard!Next, TLSGuard!Change, Eff, Profiles
  <2>7. CASE /\ GuardPhase("tls") = "held" /\ GuardPhase("tls")' = "restored"
             /\ saved'["tls"] = saved["tls"] /\ cfg'["tls"] = Known("tls", GoBackTo("tls"))
    BY <2>1, <2>3, <2>7 DEF TLSGuard!Next, TLSGuard!Restore, Eff
  <2>8. CASE GuardPhase("tls") = "held" /\ GuardPhase("tls")' = "reported" /\ saved'["tls"] = saved["tls"]
    BY <2>1, <2>8 DEF TLSGuard!Next, TLSGuard!Report, Eff, Profiles
  <2> QED BY <2>2, <2>4, <2>5, <2>6, <2>7, <2>8, GuardSteps
<1> QED BY <1>1, <1>2, Invariance, PTL DEF Spec, TLSGuard!SafeSpec


-----------------------------------------------------------------------------
(***************************************************************************)
(* Passed checks.  In a container in which nothing has failed yet, a part  *)
(* with a check that is to stand follows its setting change by change:     *)
(* before a change the part shows the old value only, and until the        *)
(* operator notices the change it shows nothing else; so a check for the   *)
(* new value passes only after that.                                       *)
(***************************************************************************)
Undisturbed == phase = "run" /\ failed = {}

\* What the operator acts on, and what is configured.
Noticed(p)    == Eff(FieldOf(p), seen[FieldOf(p)])
Configured(p) == Eff(FieldOf(p), cfg[FieldOf(p)])

\* A check of the part, past or to come, is to stand at this point.
Needed(p) ==
  \E j \in 1..Len(container.ops) :
    /\ IsCheck(container.ops[j], p) /\ SetOnce(container, j)
    /\ \A k \in Sets(FieldOf(p)) : k > j => at <= k
\* Every change so far has been followed by a check.
Quiet(p) ==
  \A i \in Sets(FieldOf(p)) : i < at =>
    /\ p[2] # "nginx"
    /\ \E m \in (i + 1)..(at - 1) : IsCheck(container.ops[m], p)
\* A check has passed since the last change.
Checked(p) ==
  \E m \in 1..Len(container.ops) :
    /\ m < at /\ IsCheck(container.ops[m], p)
    /\ \A k \in Sets(FieldOf(p)) : m < k => at <= k

Comes(p) == p[1] = "pruner" /\ FieldOf(p) = "mtls"
PartInv(p) ==
  /\ Noticed(p) # Configured(p) => shown[p] \subseteq {Noticed(p)}
  /\ Quiet(p) => Noticed(p) = Configured(p) /\ shown[p] \subseteq {Configured(p)}
  /\ ~Comes(p) => shown[p] # {}
  /\ Comes(p) => IF seen["pruner"] = "true" THEN cfg["pruner"] = "true" ELSE shown[p] = {}
  /\ Checked(p) =>
       /\ shown[p] # {}
       /\ p[2] = "nginx" =>
            \A x \in shown[p] \cup {Noticed(p)} : Protocols(Configured(p)) \subseteq Protocols(x)
FixedInv(p) ==
  /\ shown[p] = {"false"}
  /\ \A m \in 1..Len(container.ops) :
       m < at /\ IsCheck(container.ops[m], p) => container.ops[m].v = "false"
LastInv ==
  \A f \in {"mtls", "tls"} : \A i \in Sets(f) :
    Last(Sets(f), i, at) => cfg[f] = Known(f, container.ops[i].v)
TrackInv ==
  Undisturbed =>
    /\ LastInv
    /\ \A p \in Parts : IF Fixed(p) THEN FixedInv(p) ELSE Needed(p) => PartInv(p)

-----------------------------------------------------------------------------
\* What the assumptions say of scripts, settings and parts.
LEMMA ScriptFacts ==
  ASSUME IInv
  PROVE  /\ container \in Containers /\ Len(container.ops) \in Nat /\ at \in Nat \ {0}
         /\ \A i \in 1..Len(container.ops) : container.ops[i] \in Operations
         /\ ChecksFollow(container)
         /\ \A f : Sets(f) = {j \in 1..Len(container.ops) : Of(container.ops[j], "set", f)}
         /\ \A p \in Parts : FieldOf(p) \in {"mtls", "tls"}
         /\ cfg \in Settings /\ seen \in Settings
<1>1. container \in Containers /\ at \in Nat \ {0} /\ cfg \in Settings /\ seen \in Settings
  BY DEF IInv, TypeOK
<1>2. ChecksFollow(container)
  BY <1>1, ContainersAssumption
<1> QED BY <1>1, <1>2, ScriptTypes DEF Sets, SetsOf, FieldOf

\* A step of the test after which nothing has failed carries out one operation.
LEMMA OnwardStep ==
  ASSUME IInv, Steps, Undisturbed'
  PROVE  /\ Undisturbed /\ container' = container /\ seen' = seen /\ shown' = shown
         /\ at \in 1..Len(container.ops) /\ Cur = container.ops[at] /\ at' = at + 1
         /\ Cur \in Operations
         /\ \/ Cur.op = "set" /\ cfg' = Written(Cur.f, Cur.v)
            \/ Cur.op = "check" /\ Holds(Cur) /\ cfg' = cfg
            \/ Cur.op \notin {"set", "check"} /\ cfg' = cfg
<1>1. ~Fail
  <2>1. Fail /\ phase = "after" => phase' = "done"
    BY DEF Fail
  <2>2. Fail /\ phase # "after" => Cur.spec \in failed'
    BY DEF Fail
  <2> QED BY <2>1, <2>2 DEF Undisturbed
<1>2. ~StartAfter /\ ~Finished
  BY DEF Undisturbed, StartAfter, Finished
<1>3. ~Restore
  <2>1. Restore => phase = "after" /\ Ok
    BY <1>1, RestoreStep DEF Restore
  <2> QED BY <2>1 DEF Ok, Undisturbed
<1>4. /\ AtOp /\ Ok /\ container' = container /\ seen' = seen /\ shown' = shown
      /\ \/ Cur.op = "set" /\ cfg' = Written(Cur.f, Cur.v)
         \/ Cur.op = "check" /\ Holds(Cur) /\ cfg' = cfg
         \/ Cur.op \notin {"set", "check"} /\ cfg' = cfg
  <2>1. CASE Hosted
    BY <2>1 DEF Hosted, On, AtOp, Same, operator, Undisturbed
  <2>2. CASE Get
    BY <1>1, <2>2 DEF Get, On, AtOp, Same, operator
  <2>3. CASE Set
    BY <1>1, <2>3 DEF Set, On, AtOp, Same, operator
  <2>4. CASE Poll
    BY <1>1, <2>4 DEF Poll, AtOp, Same, operator
  <2>5. CASE TLSHandshake \/ PlainHandshake
    BY <1>1, <2>5 DEF TLSHandshake, PlainHandshake, On, AtOp, Same, operator
  <2> QED BY <1>2, <1>3, <2>1, <2>2, <2>3, <2>4, <2>5 DEF Steps
<1>5. phase = "run" /\ failed = {} /\ at' = at + 1
  BY <1>4 DEF Ok, Undisturbed
<1>6. at \in 1..Len(container.ops) /\ Cur = container.ops[at] /\ Cur \in Operations
  BY <1>4, <1>5, CurFacts DEF IInv
<1> QED BY <1>4, <1>5, <1>6 DEF Undisturbed

\* One operation on, a check is needed only if it was; a change is answered by a
\* check only.
LEMMA Forward ==
  ASSUME IInv, container' = container, at' = at + 1, at \in 1..Len(container.ops),
         Cur = container.ops[at], NEW p \in Parts
  PROVE  /\ Needed(p)' => Needed(p)
         /\ ~IsCheck(Cur, p) => (Quiet(p)' => Quiet(p)) /\ (Checked(p)' => Checked(p))
         /\ Of(Cur, "set", FieldOf(p)) => ~Quiet(p)' /\ ~Checked(p)'
<1> DEFINE ops == container.ops
           S   == Sets(FieldOf(p))
<1>1. at \in Nat \ {0} /\ Len(ops) \in Nat /\ S \subseteq 1..Len(ops)
  BY ScriptFacts
<1>2. \A i \in S : ops[i].op = "set"
  BY ScriptFacts DEF Of
<1>3. Sets(FieldOf(p))' = S
  BY DEF Sets
<1>4. Needed(p)' => Needed(p)
  <2> SUFFICES ASSUME Needed(p)' PROVE Needed(p)
    OBVIOUS
  <2>1. PICK j \in 1..Len(ops) : /\ IsCheck(ops[j], p) /\ SetOnce(container, j)
                                 /\ \A k \in S : k > j => at + 1 <= k
    BY <1>3 DEF Needed
  <2>2. \A k \in S : k > j => at <= k
    BY <1>1, <2>1
  <2> QED BY <2>1, <2>2 DEF Needed
<1>5. ASSUME ~IsCheck(Cur, p), Quiet(p)' PROVE Quiet(p)
  <2> SUFFICES ASSUME NEW i \in S, i < at
               PROVE  p[2] # "nginx" /\ \E m \in (i + 1)..(at - 1) : IsCheck(ops[m], p)
    BY DEF Quiet
  <2>1. i < at + 1
    BY <1>1
  <2>2. p[2] # "nginx" /\ \E m \in (i + 1)..(at + 1 - 1) : IsCheck(ops[m], p)
    BY <1>3, <1>5, <2>1 DEF Quiet
  <2>3. PICK m \in (i + 1)..(at + 1 - 1) : IsCheck(ops[m], p)
    BY <2>2
  <2>4. m # at
    BY <1>5, <2>3
  <2>5. m \in (i + 1)..(at - 1)
    BY <1>1, <2>3, <2>4
  <2> QED BY <2>2, <2>3, <2>5
<1>6. ASSUME ~IsCheck(Cur, p), Checked(p)' PROVE Checked(p)
  <2>1. PICK m \in 1..Len(ops) : /\ m < at + 1 /\ IsCheck(ops[m], p)
                                 /\ \A k \in S : m < k => at + 1 <= k
    BY <1>3, <1>6 DEF Checked
  <2>2. m # at
    BY <1>6, <2>1
  <2>3. m < at /\ \A k \in S : m < k => at <= k
    BY <1>1, <2>1, <2>2
  <2> QED BY <2>1, <2>3 DEF Checked
<1>7. ASSUME Of(Cur, "set", FieldOf(p)) PROVE ~Quiet(p)' /\ ~Checked(p)'
  <2>1. at \in S /\ ~IsCheck(Cur, p)
    BY <1>7, ScriptFacts DEF Of, IsCheck
  <2>2. ~Quiet(p)'
    <3> SUFFICES ASSUME Quiet(p)' PROVE FALSE
      OBVIOUS
    <3>1. at < at + 1
      BY <1>1
    <3>2. \E m \in (at + 1)..(at + 1 - 1) : IsCheck(ops[m], p)
      BY <1>3, <2>1, <3>1 DEF Quiet
    <3> QED BY <1>1, <3>2
  <2>3. ~Checked(p)'
    <3> SUFFICES ASSUME Checked(p)' PROVE FALSE
      OBVIOUS
    <3>1. PICK m \in 1..Len(ops) : /\ m < at + 1 /\ IsCheck(ops[m], p)
                                   /\ \A k \in S : m < k => at + 1 <= k
      BY <1>3 DEF Checked
    <3>2. m # at
      BY <2>1, <3>1
    <3> QED BY <1>1, <2>1, <3>1, <3>2
  <2> QED BY <2>2, <2>3
<1> QED BY <1>4, <1>5, <1>6, <1>7


\* What the operation at hand does to a setting.
LEMMA SetMeans ==
  ASSUME IInv, Steps, Undisturbed', Cur.op = "set"
  PROVE  /\ Cur.f \in Restorable /\ Cur.v \in ValuesOf(Cur.f) /\ cfg'[Cur.f] = Known(Cur.f, Cur.v)
         /\ \A g \in Restorable \ {Cur.f} : cfg'[g] = cfg[g]
<1>1. /\ cfg' = Written(Cur.f, Cur.v) /\ container \in Containers
      /\ at \in 1..Len(container.ops) /\ Cur = container.ops[at]
  BY OnwardStep, ScriptFacts
<1>2. ReadFirst(container) /\ \A i \in 1..Len(container.ops) : container.ops[i] \in Operations
  BY <1>1, ScriptTypes
<1>3. Cur.v \in ValuesOf(Cur.f) /\ \E g \in 1..(at - 1) : Of(container.ops[g], "get", Cur.f)
  BY <1>1, <1>2 DEF ReadFirst
<1>4. PICK g \in 1..(at - 1) : Of(container.ops[g], "get", Cur.f)
  BY <1>3
<1>5. g \in 1..Len(container.ops)
  BY <1>1, <1>4, ScriptFacts
<1>6. Cur.f \in Restorable
  BY <1>2, <1>4, <1>5 DEF ReadFirst, Of
<1> QED BY <1>1, <1>3, <1>6, WrittenFacts, ScriptFacts

\* A needed check comes after the operation at hand, or every change so far has
\* been followed by it.
LEMMA NeededFacts ==
  ASSUME IInv, NEW p \in Parts, ~Fixed(p), Needed(p)', container' = container, at' = at + 1,
         at \in 1..Len(container.ops), Cur = container.ops[at]
  PROVE  /\ Of(Cur, "set", FieldOf(p)) => Quiet(p)
         /\ Comes(p) => \A i \in Sets("pruner") : container.ops[i].v = "true"
         /\ p[2] = "nginx" => (Quiet(p)' => Quiet(p))
         /\ IsCheck(Cur, p) =>
              \/ Checked(p) /\ (p[2] # "nginx" => Quiet(p))
              \/ \E i \in Sets(FieldOf(p)) :
                   /\ Last(Sets(FieldOf(p)), i, at) /\ Cur.v = container.ops[i].v
                   /\ container.ops[i].v \notin {"unset", "Custom"}
<1> DEFINE ops == container.ops
           S   == Sets(FieldOf(p))
<1>1. /\ at \in Nat \ {0} /\ Len(ops) \in Nat /\ S \subseteq 1..Len(ops)
      /\ \A i \in S : ops[i].op = "set"
  BY ScriptFacts DEF Of
<1>2. Sets(FieldOf(p))' = S
  BY DEF Sets
<1>3. PICK j \in 1..Len(ops) : /\ IsCheck(ops[j], p) /\ SetOnce(container, j)
                               /\ \A k \in S : k > j => at + 1 <= k
  BY <1>2 DEF Needed
<1>4. /\ \A m \in 1..j : IsCheck(ops[m], p) =>
           \E i \in S : /\ Last(S, i, m) /\ ops[m].v = ops[i].v
                        /\ ops[i].v \notin {"unset", "Custom"}
      /\ \A i, k \in S : i < k /\ k < j =>
           /\ p[2] # "nginx"
           /\ \E m \in (i + 1)..(k - 1) : IsCheck(ops[m], p)
      /\ p[1] = "pruner" => \A i \in SetsOf(container, "pruner") : ops[i].v = "true"
  BY <1>3, ScriptFacts DEF ChecksFollow, Sets
<1>5. ASSUME Of(Cur, "set", FieldOf(p)) PROVE Quiet(p)
  <2>1. at \in S /\ at # j
    BY <1>3, <1>5, ScriptFacts DEF Of, IsCheck
  <2>2. at < j
    BY <1>1, <1>3, <2>1
  <2> QED BY <1>4, <2>1, <2>2 DEF Quiet
<1>6. Comes(p) => \A i \in Sets("pruner") : ops[i].v = "true"
  BY <1>4 DEF Comes, Sets
<1>7. ASSUME IsCheck(Cur, p)
      PROVE  \/ Checked(p) /\ (p[2] # "nginx" => Quiet(p))
             \/ \E i \in S : /\ Last(S, i, at) /\ Cur.v = ops[i].v
                             /\ ops[i].v \notin {"unset", "Custom"}
  <2>1. CASE at <= j
    BY <1>1, <1>4, <1>7, <2>1
  <2>2. CASE j < at
    <3>1. ASSUME NEW i \in S, i < at PROVE \E m \in (i + 1)..(at - 1) : IsCheck(ops[m], p)
      <4>1. i # j
        BY <1>1, <1>3 DEF IsCheck
      <4>2. j \in (i + 1)..(at - 1)
        BY <1>1, <1>3, <2>2, <3>1, <4>1
      <4> QED BY <1>3, <4>2
    <3>2. \A k \in S : j < k => at <= k
      BY <1>1, <1>3
    <3>3. Checked(p)
      BY <1>3, <2>2, <3>2 DEF Checked
    <3> QED BY <3>1, <3>3 DEF Quiet
  <2> QED BY <1>1, <2>1, <2>2
<1>8. ASSUME p[2] = "nginx", Quiet(p)' PROVE Quiet(p)
  <2>1. \A i \in S : i < at => i < at + 1
    BY <1>1
  <2> QED BY <1>2, <1>8, <2>1 DEF Quiet
<1> QED BY <1>5, <1>6, <1>7, <1>8

\* Where nothing disturbs a part, what is configured and shown stays.
LEMMA PartAlone ==
  ASSUME NEW p \in Parts, PartInv(p), Noticed(p)' = Noticed(p), Configured(p)' = Configured(p),
         shown' = shown, seen' = seen, Comes(p) /\ cfg["pruner"] = "true" => cfg'["pruner"] = "true",
         Quiet(p)' => Quiet(p), Checked(p)' => Checked(p)
  PROVE  PartInv(p)'
<1>1. shown'[p] = shown[p] /\ seen'["pruner"] = seen["pruner"]
  OBVIOUS
<1>2. (Noticed(p) # Configured(p) => shown[p] \subseteq {Noticed(p)})'
  BY <1>1 DEF PartInv
<1>3. (Quiet(p) => Noticed(p) = Configured(p) /\ shown[p] \subseteq {Configured(p)})'
  BY <1>1 DEF PartInv
<1>4. (~Comes(p) => shown[p] # {})'
  BY <1>1 DEF PartInv, Comes
<1>5. (Comes(p) => IF seen["pruner"] = "true" THEN cfg["pruner"] = "true" ELSE shown[p] = {})'
  BY <1>1 DEF PartInv, Comes
<1>6. (Checked(p) =>
         /\ shown[p] # {}
         /\ p[2] = "nginx" =>
              \A x \in shown[p] \cup {Noticed(p)} : Protocols(Configured(p)) \subseteq Protocols(x))'
  BY <1>1 DEF PartInv
<1> QED BY <1>2, <1>3, <1>4, <1>5, <1>6 DEF PartInv


\* A check that passed: what the part shows.
LEMMA ShowsMeans ==
  ASSUME NEW p \in Parts, NEW v, Shows(p, v)
  PROVE  /\ p[2] # "nginx" => shown[p] = {v}
         /\ p[2] = "nginx" => \A x \in shown[p] : Protocols(v) \subseteq Protocols(x)
<1>1. p[2] \in {"service", "monitor", "pods", "env", "nginx"}
  BY PartsAssumption
<1>2. CASE p[2] = "pods"
  BY <1>2 DEF Shows, PodsShow
<1>3. CASE p[2] = "nginx"
  BY <1>3 DEF Shows, NginxShows
<1>4. CASE p[2] \in {"service", "monitor", "env"}
  BY <1>4 DEF Shows, ServiceShows, MonitorShows, DeploymentShows
<1> QED BY <1>1, <1>2, <1>3, <1>4

\* The value set last, where it is one a check can be for, is what is configured.
LEMMA LastMeans ==
  ASSUME IInv, LastInv, NEW f \in {"mtls", "tls"}, NEW i \in Sets(f), Last(Sets(f), i, at),
         container.ops[i].v \notin {"unset", "Custom"}
  PROVE  Eff(f, cfg[f]) = container.ops[i].v
<1> DEFINE v == container.ops[i].v
<1>1. cfg[f] = Known(f, v)
  BY DEF LastInv
<1>2. i \in 1..Len(container.ops) /\ Of(container.ops[i], "set", f) /\ container \in Containers
  BY ScriptFacts
<1>3. v \in ValuesOf(f)
  BY <1>2, ScriptTypes DEF ReadFirst, Of
<1> QED BY <1>1, <1>3 DEF Known, Eff, ValuesOf, Profiles

\* The setting of the part is changed: all it shows is the old value.
LEMMA PartSet ==
  ASSUME IInv, Steps, Undisturbed', NEW p \in Parts, ~Fixed(p), Needed(p)', PartInv(p),
         Of(Cur, "set", FieldOf(p))
  PROVE  PartInv(p)'
<1>1. /\ container' = container /\ seen' = seen /\ shown' = shown /\ at' = at + 1
      /\ at \in 1..Len(container.ops) /\ Cur = container.ops[at]
  BY OnwardStep
<1>2. Quiet(p)
  BY <1>1, NeededFacts
<1>3. ~Quiet(p)' /\ ~Checked(p)'
  BY <1>1, Forward
<1>4. Noticed(p)' = Noticed(p) /\ shown'[p] = shown[p] /\ seen'["pruner"] = seen["pruner"]
  BY <1>1 DEF Noticed
<1>5. shown[p] \subseteq {Noticed(p)}
  BY <1>2 DEF PartInv
<1>6. cfg'["pruner"] = cfg["pruner"]
  BY SetMeans, ScriptFacts DEF Of, Restorable
<1>7. (Noticed(p) # Configured(p) => shown[p] \subseteq {Noticed(p)})'
  BY <1>4, <1>5
<1>8. (~Comes(p) => shown[p] # {})'
  BY <1>4 DEF PartInv, Comes
<1>9. (Comes(p) => IF seen["pruner"] = "true" THEN cfg["pruner"] = "true" ELSE shown[p] = {})'
  BY <1>4, <1>6 DEF PartInv, Comes
<1> QED BY <1>3, <1>7, <1>8, <1>9 DEF PartInv

\* A check of the part passes: a check for the new value finds it noticed.
LEMMA PartCheck ==
  ASSUME IInv, LastInv, Steps, Undisturbed', NEW p \in Parts, ~Fixed(p), Needed(p)', PartInv(p),
         IsCheck(Cur, p)
  PROVE  PartInv(p)'
<1> DEFINE S == Sets(FieldOf(p))
<1>1. /\ container' = container /\ seen' = seen /\ shown' = shown /\ at' = at + 1 /\ cfg' = cfg
      /\ at \in 1..Len(container.ops) /\ Cur = container.ops[at] /\ Holds(Cur)
  BY OnwardStep DEF IsCheck
<1>2. Noticed(p)' = Noticed(p) /\ Configured(p)' = Configured(p)
  BY <1>1 DEF Noticed, Configured
<1>3. Shows(p, Cur.v)
  BY <1>1 DEF Holds, IsCheck
<1>4. /\ p[2] = "nginx" => (Quiet(p)' => Quiet(p))
      /\ \/ Checked(p) /\ (p[2] # "nginx" => Quiet(p))
         \/ \E i \in S : /\ Last(S, i, at) /\ Cur.v = container.ops[i].v
                         /\ container.ops[i].v \notin {"unset", "Custom"}
  BY <1>1, NeededFacts
<1>5. CASE Checked(p) /\ (p[2] # "nginx" => Quiet(p))
  BY <1>1, <1>2, <1>4, <1>5, PartAlone
<1>6. CASE \E i \in S : /\ Last(S, i, at) /\ Cur.v = container.ops[i].v
                        /\ container.ops[i].v \notin {"unset", "Custom"}
  <2>1. Configured(p) = Cur.v
    BY <1>6, LastMeans, ScriptFacts DEF Configured
  <2>2. CASE p[2] # "nginx"
    <3>1. shown[p] = {Configured(p)}
      BY <1>3, <2>1, <2>2, ShowsMeans
    <3>2. Noticed(p) = Configured(p)
      BY <3>1 DEF PartInv
    <3>3. Noticed(p)' = Configured(p)' /\ shown'[p] = {Configured(p)'}
      BY <1>1, <1>2, <3>1, <3>2
    <3>4. (Comes(p) => IF seen["pruner"] = "true" THEN cfg["pruner"] = "true" ELSE shown[p] = {})'
      BY <1>1 DEF PartInv, Comes
    <3> QED BY <2>2, <3>3, <3>4 DEF PartInv
  <2>3. CASE p[2] = "nginx"
    <3>1. \A x \in shown[p] : Protocols(Configured(p)) \subseteq Protocols(x)
      BY <1>3, <2>1, <2>3, ShowsMeans
    <3>2. ~Comes(p) /\ shown[p] # {}
      BY <2>3 DEF Comes, FieldOf, PartInv
    <3>3. Noticed(p) # Configured(p) => Noticed(p) \in shown[p]
      BY <3>2 DEF PartInv
    <3>4. \A x \in shown[p] \cup {Noticed(p)} : Protocols(Configured(p)) \subseteq Protocols(x)
      BY <3>1, <3>3
    <3>5. (\A x \in shown[p] \cup {Noticed(p)} : Protocols(Configured(p)) \subseteq Protocols(x))'
      BY <1>1, <1>2, <3>4
    <3>6. (Noticed(p) # Configured(p) => shown[p] \subseteq {Noticed(p)})'
      BY <1>1, <1>2 DEF PartInv
    <3>7. (Quiet(p) => Noticed(p) = Configured(p) /\ shown[p] \subseteq {Configured(p)})'
      BY <1>1, <1>2, <1>4, <2>3 DEF PartInv
    <3>8. ~Comes(p)' /\ shown'[p] # {}
      BY <1>1, <3>2 DEF Comes
    <3> QED BY <3>5, <3>6, <3>7, <3>8 DEF PartInv
  <2> QED BY <2>2, <2>3
<1> QED BY <1>4, <1>5, <1>6


\* Every operation keeps what is known of a part with a check that is to stand.
LEMMA PartMove ==
  ASSUME IInv, LastInv, Steps, Undisturbed', NEW p \in Parts, ~Fixed(p), Needed(p) => PartInv(p)
  PROVE  Needed(p)' => PartInv(p)'
<1> SUFFICES ASSUME Needed(p)' PROVE PartInv(p)'
  OBVIOUS
<1>1. /\ container' = container /\ seen' = seen /\ shown' = shown /\ at' = at + 1
      /\ at \in 1..Len(container.ops) /\ Cur = container.ops[at]
      /\ Cur.op = "set" \/ cfg' = cfg
  BY OnwardStep
<1>2. PartInv(p)
  BY <1>1, Forward
<1>3. CASE Of(Cur, "set", FieldOf(p))
  BY <1>2, <1>3, PartSet
<1>4. CASE IsCheck(Cur, p)
  BY <1>2, <1>4, PartCheck
<1>5. CASE ~Of(Cur, "set", FieldOf(p)) /\ ~IsCheck(Cur, p)
  <2>1. (Quiet(p)' => Quiet(p)) /\ (Checked(p)' => Checked(p))
    BY <1>1, <1>5, Forward
  <2>2. Noticed(p)' = Noticed(p)
    BY <1>1 DEF Noticed
  <2>3. cfg'[FieldOf(p)] = cfg[FieldOf(p)]
    <3>1. FieldOf(p) \in Restorable
      BY ScriptFacts DEF Restorable
    <3>2. CASE Cur.op = "set"
      BY <1>5, <3>1, <3>2, SetMeans DEF Of
    <3> QED BY <1>1, <3>2
  <2>4. Configured(p)' = Configured(p)
    BY <2>3 DEF Configured
  <2>5. ASSUME Comes(p), cfg["pruner"] = "true" PROVE cfg'["pruner"] = "true"
    <3>1. CASE Cur.op = "set" /\ Cur.f = "pruner"
      <4>1. at \in Sets("pruner")
        BY <1>1, <3>1, ScriptFacts DEF Of
      <4>2. Cur.v = "true"
        BY <1>1, <2>5, <4>1, NeededFacts
      <4> QED BY <3>1, <4>2, SetMeans DEF Known
    <3>2. CASE Cur.op = "set" /\ Cur.f # "pruner"
      BY <2>5, <3>2, SetMeans DEF Restorable
    <3> QED BY <1>1, <2>5, <3>1, <3>2
  <2> QED BY <1>1, <1>2, <2>1, <2>2, <2>4, <2>5, PartAlone
<1> QED BY <1>3, <1>4, <1>5

\* The value set last is what is configured.
LEMMA LastMove == ASSUME IInv, LastInv, Steps, Undisturbed' PROVE LastInv'
<1>1. /\ container' = container /\ at' = at + 1
      /\ at \in 1..Len(container.ops) /\ Cur = container.ops[at]
      /\ Cur.op = "set" \/ cfg' = cfg
  BY OnwardStep
<1> SUFFICES ASSUME NEW f \in {"mtls", "tls"}, NEW i \in Sets(f), Last(Sets(f), i, at + 1)
             PROVE  cfg'[f] = Known(f, container.ops[i].v)
  BY <1>1 DEF LastInv, Sets
<1>2. /\ at \in Nat /\ Sets(f) \subseteq Nat
      /\ i \in 1..Len(container.ops) /\ Of(container.ops[i], "set", f)
  BY <1>1, ScriptFacts
<1>3. CASE i = at
  BY <1>1, <1>2, <1>3, SetMeans DEF Of
<1>4. CASE i # at
  <2>1. at \notin Sets(f)
    BY <1>2, <1>4 DEF Last
  <2>2. Last(Sets(f), i, at)
    BY <1>2, <1>4 DEF Last
  <2>3. cfg[f] = Known(f, container.ops[i].v)
    BY <2>2 DEF LastInv
  <2>4. ~Of(Cur, "set", f)
    BY <1>1, <2>1, ScriptFacts
  <2>5. Cur.op = "set" => cfg'[f] = cfg[f]
    BY <2>4, SetMeans DEF Of, Restorable
  <2> QED BY <1>1, <2>3, <2>5
<1> QED BY <1>3, <1>4

\* The results API keeps plain HTTP, and checks of it pass for nothing else.
LEMMA FixedMove ==
  ASSUME IInv, Steps, Undisturbed', NEW p \in Parts, Fixed(p), FixedInv(p)
  PROVE  FixedInv(p)'
<1>1. /\ container' = container /\ shown' = shown /\ at' = at + 1
      /\ at \in 1..Len(container.ops) /\ Cur = container.ops[at]
      /\ Cur.op = "check" => Holds(Cur)
  BY OnwardStep
<1>2. ASSUME IsCheck(Cur, p) PROVE Cur.v = "false"
  <2>1. Shows(p, Cur.v) /\ p[2] # "nginx"
    BY <1>1, <1>2 DEF Holds, IsCheck, Fixed, FieldOf
  <2>2. shown[p] = {Cur.v} /\ shown[p] = {"false"}
    BY <2>1, ShowsMeans DEF FixedInv
  <2> QED BY <2>2
<1>3. ASSUME NEW m \in 1..Len(container.ops), m < at + 1, IsCheck(container.ops[m], p)
      PROVE  container.ops[m].v = "false"
  <2>1. m = at \/ m < at
    BY <1>1, <1>3, ScriptFacts
  <2> QED BY <1>1, <1>2, <1>3, <2>1 DEF FixedInv
<1> QED BY <1>1, <1>3 DEF FixedInv

\* What the operator brings a part to.
LEMMA TargetMeans ==
  ASSUME NEW p \in Parts
  PROVE  /\ Fixed(p) => Target(p, seen) = {"false"}
         /\ ~Fixed(p) /\ ~Comes(p) => Target(p, seen) = {Noticed(p)}
         /\ Comes(p) => Target(p, seen) = IF seen["pruner"] = "true" THEN {Noticed(p)} ELSE {}
<1>1. CASE FieldOf(p) = "tls"
  <2>1. ~Fixed(p) /\ ~Comes(p)
    BY <1>1 DEF Fixed, Comes
  <2>2. Target(p, seen) = {Eff("tls", seen["tls"])} /\ Noticed(p) = Eff("tls", seen["tls"])
    BY <1>1, <2>1 DEF Target, Noticed
  <2> QED BY <2>1, <2>2
<1>2. CASE FieldOf(p) = "mtls"
  <2>1. Noticed(p) = Eff("mtls", seen["mtls"]) /\ (Fixed(p) => p[1] = "results-api")
    BY <1>2 DEF Noticed, Fixed
  <2> QED BY <1>2, <2>1 DEF Target, Comes
<1> QED BY <1>1, <1>2 DEF FieldOf

\* The operator notices all settings at once.
LEMMA PartNoticed ==
  ASSUME NEW p \in Parts, PartInv(p), seen' = cfg, UNCHANGED <<container, at, cfg, shown>>
  PROVE  PartInv(p)'
<1>1. Noticed(p)' = Configured(p) /\ Configured(p)' = Configured(p)
  BY DEF Noticed, Configured
<1>2. (Quiet(p)' => Quiet(p)) /\ (Checked(p)' => Checked(p)) /\ (Comes(p)' <=> Comes(p))
  BY DEF Quiet, Checked, Sets, Comes
<1>3. (Comes(p) => IF seen["pruner"] = "true" THEN cfg["pruner"] = "true" ELSE shown[p] = {})'
  BY DEF PartInv, Comes
<1>4. (Quiet(p) => Noticed(p) = Configured(p) /\ shown[p] \subseteq {Configured(p)})'
  BY <1>1, <1>2 DEF PartInv
<1>5. (Checked(p) =>
         /\ shown[p] # {}
         /\ p[2] = "nginx" =>
              \A x \in shown[p] \cup {Noticed(p)} : Protocols(Configured(p)) \subseteq Protocols(x))'
  BY <1>1, <1>2 DEF PartInv
<1> QED BY <1>1, <1>2, <1>3, <1>4, <1>5 DEF PartInv

\* The operator brings a part to what it has noticed, or one pod of it.
LEMMA PartReconciled ==
  ASSUME IInv, NEW p \in Parts, ~Fixed(p), PartInv(p), UNCHANGED <<container, at, cfg, seen>>,
         shown'[p] \in {shown[p], Target(p, seen), shown[p] \cup Target(p, seen)}
  PROVE  PartInv(p)'
<1>1. Noticed(p)' = Noticed(p) /\ Configured(p)' = Configured(p) /\ seen'["pruner"] = seen["pruner"]
  BY DEF Noticed, Configured
<1>2. (Quiet(p)' => Quiet(p)) /\ (Checked(p)' => Checked(p)) /\ (Comes(p)' <=> Comes(p))
  BY DEF Quiet, Checked, Sets, Comes
<1>3. /\ Target(p, seen) \subseteq {Noticed(p)}
      /\ ~Comes(p) \/ seen["pruner"] = "true" => Target(p, seen) # {}
      /\ Comes(p) /\ seen["pruner"] # "true" => Target(p, seen) = {}
  BY TargetMeans
<1>4. /\ shown'[p] \subseteq shown[p] \cup {Noticed(p)}
      /\ ~Comes(p) \/ seen["pruner"] = "true" => (shown[p] # {} => shown'[p] # {})
      /\ Comes(p) /\ seen["pruner"] # "true" => shown'[p] = {}
  <2>1. Comes(p) /\ seen["pruner"] # "true" => shown[p] = {}
    BY DEF PartInv
  <2> QED BY <1>3, <2>1
<1>5. shown[p] # {} => shown'[p] # {}
  BY <1>4 DEF PartInv
<1>6. (Noticed(p) # Configured(p) => shown[p] \subseteq {Noticed(p)})'
  BY <1>1, <1>4 DEF PartInv
<1>7. (Quiet(p) => Noticed(p) = Configured(p) /\ shown[p] \subseteq {Configured(p)})'
  BY <1>1, <1>2, <1>4 DEF PartInv
<1>8. (~Comes(p) => shown[p] # {})'
  BY <1>2, <1>5 DEF PartInv
<1>9. (Comes(p) => IF seen["pruner"] = "true" THEN cfg["pruner"] = "true" ELSE shown[p] = {})'
  BY <1>1, <1>2, <1>4 DEF PartInv
<1>10. (Checked(p) =>
         /\ shown[p] # {}
         /\ p[2] = "nginx" =>
              \A x \in shown[p] \cup {Noticed(p)} : Protocols(Configured(p)) \subseteq Protocols(x))'
  BY <1>1, <1>2, <1>4, <1>5 DEF PartInv
<1> QED BY <1>6, <1>7, <1>8, <1>9, <1>10 DEF PartInv


\* The operator keeps what is known of every part.
LEMMA OperatorTrack == ASSUME IInv, TrackInv, Operator PROVE TrackInv'
<1>1. UNCHANGED <<container, phase, at, cfg, failed>>
  BY OperatorStep DEF Test, settings, outcome
<1> SUFFICES ASSUME Undisturbed
             PROVE  /\ LastInv'
                    /\ \A p \in Parts : IF Fixed(p) THEN FixedInv(p)' ELSE Needed(p)' => PartInv(p)'
  BY <1>1 DEF TrackInv, Undisturbed
<1>2. /\ LastInv
      /\ \A p \in Parts : IF Fixed(p) THEN FixedInv(p) ELSE Needed(p) => PartInv(p)
  BY DEF TrackInv
<1>3. LastInv'
  BY <1>1, <1>2 DEF LastInv, Sets
<1>4. ASSUME NEW p \in Parts PROVE Needed(p)' => Needed(p)
  BY <1>1 DEF Needed, Sets
<1>5. \/ seen' = cfg /\ shown' = shown
      \/ /\ seen' = seen
         /\ \A p \in Parts : shown'[p] \in {shown[p], Target(p, seen), shown[p] \cup Target(p, seen)}
  <2>1. shown \in [Parts -> SUBSET FieldValues]
    BY DEF IInv, TypeOK
  <2>2. CASE \E p \in Parts : Reconcile(p)
    <3>1. PICK q \in Parts : Reconcile(q)
      BY <2>2
    <3> QED BY <2>1, <3>1 DEF Reconcile
  <2> QED BY <2>2 DEF Operator, Notice, Settle
<1>6. ASSUME NEW p \in Parts, Fixed(p) PROVE FixedInv(p)'
  <2>1. FixedInv(p)
    BY <1>2, <1>6
  <2>2. shown'[p] = shown[p]
    BY <1>5, <1>6, <2>1, TargetMeans DEF FixedInv
  <2> QED BY <1>1, <2>1, <2>2 DEF FixedInv
<1>7. ASSUME NEW p \in Parts, ~Fixed(p), Needed(p)' PROVE PartInv(p)'
  <2>1. PartInv(p)
    BY <1>2, <1>4, <1>7
  <2> QED BY <1>1, <1>5, <1>7, <2>1, PartNoticed, PartReconciled
<1> QED BY <1>3, <1>6, <1>7

\* At first nothing has been changed, and everything is as configured.
LEMMA InitTrack == Init => TrackInv
<1> SUFFICES ASSUME Init PROVE TrackInv
  OBVIOUS
<1>1. IInv /\ at = 1 /\ seen = cfg /\ shown = [p \in Parts |-> Target(p, cfg)]
  BY InitInv DEF Init
<1>2. \A f : Sets(f) \subseteq Nat \ {0}
  BY <1>1, ScriptFacts
<1>3. LastInv
  BY <1>1, <1>2 DEF LastInv, Last
<1>4. ASSUME NEW p \in Parts PROVE IF Fixed(p) THEN FixedInv(p) ELSE PartInv(p)
  <2>1. shown[p] = Target(p, seen) /\ Noticed(p) = Configured(p)
    BY <1>1 DEF Noticed, Configured
  <2>2. ~Checked(p)
    BY <1>1 DEF Checked
  <2>3. CASE Fixed(p)
    BY <1>1, <2>1, <2>3, TargetMeans DEF FixedInv
  <2>4. CASE ~Fixed(p) /\ ~Comes(p)
    BY <2>1, <2>2, <2>4, TargetMeans DEF PartInv
  <2>5. CASE ~Fixed(p) /\ Comes(p)
    BY <1>1, <2>1, <2>2, <2>5, TargetMeans DEF PartInv
  <2> QED BY <2>3, <2>4, <2>5
<1> QED BY <1>3, <1>4 DEF TrackInv

LEMMA NextTrack == IInv /\ TrackInv /\ [Next]_vars => TrackInv'
<1> SUFFICES ASSUME IInv, TrackInv, [Next]_vars PROVE TrackInv'
  OBVIOUS
<1>1. CASE Steps
  <2> SUFFICES ASSUME Undisturbed'
               PROVE  /\ LastInv'
                      /\ \A p \in Parts : IF Fixed(p) THEN FixedInv(p)' ELSE Needed(p)' => PartInv(p)'
    BY DEF TrackInv
  <2>1. /\ LastInv
        /\ \A p \in Parts : IF Fixed(p) THEN FixedInv(p) ELSE Needed(p) => PartInv(p)
    BY <1>1, OnwardStep DEF TrackInv
  <2> QED BY <1>1, <2>1, LastMove, FixedMove, PartMove
<1>2. CASE Operator
  BY <1>2, OperatorTrack
<1>3. CASE Done \/ UNCHANGED vars
  <2>1. UNCHANGED <<container, phase, at, cfg, failed, seen, shown>>
    BY <1>3 DEF Done, vars, settings, outcome, operator
  <2>2. Undisturbed' <=> Undisturbed
    BY <2>1 DEF Undisturbed
  <2>3. LastInv => LastInv'
    BY <2>1 DEF LastInv, Sets
  <2>4. ASSUME NEW p \in Parts
        PROVE  (FixedInv(p) => FixedInv(p)') /\ (Needed(p)' => Needed(p)) /\ (PartInv(p) => PartInv(p)')
    <3>1. (FixedInv(p) => FixedInv(p)') /\ (Needed(p)' => Needed(p))
      BY <2>1 DEF FixedInv, Needed, Sets
    <3>2. /\ (Quiet(p)' => Quiet(p)) /\ (Checked(p)' => Checked(p))
          /\ Noticed(p)' = Noticed(p) /\ Configured(p)' = Configured(p)
      BY <2>1 DEF Quiet, Checked, Sets, Noticed, Configured
    <3> QED BY <2>1, <3>1, <3>2, PartAlone
  <2> QED BY <2>2, <2>3, <2>4 DEF TrackInv
<1> QED BY <1>1, <1>2, <1>3 DEF Next

\* A check that passed stands until its setting is changed again, though Ready
\* may still be that of before the change: the check itself cannot pass before
\* the operator has noticed it (pollUntilNoError, the assertions of mtls.go and
\* tlsprofile.go).
THEOREM ChecksStand == Spec => []PassedChecksStand
<1>1. IInv /\ TrackInv => PassedChecksStand
  <2> SUFFICES ASSUME IInv, TrackInv, phase = "run", NEW j \in Standing
               PROVE  InForce(container.ops[j].p, container.ops[j].v)
    BY DEF PassedChecksStand
  <2> DEFINE o == container.ops[j]
             p == o.p
             S == Sets(FieldOf(p))
  <2>1. /\ j \in 1..(at - 1) /\ o.op = "check" /\ failed = {}
        /\ \A i \in S : i > j => at <= i
        /\ \A i, k \in S : SameSpec(i, j) /\ SameSpec(k, j) => i = k
    BY DEF Standing
  <2>2. /\ container \in Containers /\ Len(container.ops) \in Nat /\ at \in Nat \ {0}
        /\ S \subseteq 1..Len(container.ops) /\ \A i \in S : container.ops[i].op = "set"
    BY ScriptFacts DEF Of
  <2>3. j \in 1..Len(container.ops)
    <3>1. at <= Len(container.ops) + 1
      BY DEF IInv, TypeOK, Ops
    <3> QED BY <2>1, <2>2, <3>1
  <2>4. p \in Parts /\ IsCheck(o, p)
    BY <2>1, <2>2, <2>3, ScriptTypes DEF Operations, IsCheck
  <2>5. SetOnce(container, j)
    BY <2>1 DEF SetOnce, SameSpec, Sets
  <2>6. /\ LastInv
        /\ IF Fixed(p) THEN FixedInv(p) ELSE Needed(p) => PartInv(p)
    BY <2>1, <2>4 DEF TrackInv, Undisturbed
  <2>7. CASE Fixed(p)
    <3>1. shown[p] = {"false"} /\ o.v = "false"
      BY <2>1, <2>2, <2>3, <2>4, <2>6, <2>7 DEF FixedInv
    <3> QED BY <3>1 DEF InForce
  <2>8. CASE ~Fixed(p)
    <3>1. Needed(p)
      BY <2>1, <2>3, <2>4, <2>5 DEF Needed
    <3>2. PartInv(p)
      BY <2>6, <2>8, <3>1
    <3>3. PICK i \in S : /\ Last(S, i, j) /\ o.v = container.ops[i].v
                         /\ container.ops[i].v \notin {"unset", "Custom"}
      BY <2>2, <2>3, <2>4, <2>5, <2>8, ScriptFacts DEF ChecksFollow, Sets
    <3>4. Last(S, i, at)
      BY <2>1, <2>2, <2>3, <3>3 DEF Last
    <3>5. Configured(p) = o.v
      BY <2>4, <2>6, <3>3, <3>4, LastMeans, ScriptFacts DEF Configured
    <3>6. Checked(p)
      BY <2>1, <2>2, <2>3, <2>4 DEF Checked
    <3>7. CASE p[2] = "nginx"
      <4>1. shown[p] # {} /\ \A x \in shown[p] : Protocols(o.v) \subseteq Protocols(x)
        BY <3>2, <3>5, <3>6, <3>7 DEF PartInv
      <4> QED BY <3>7, <4>1 DEF InForce
    <3>8. CASE p[2] # "nginx"
      <4>1. ASSUME NEW k \in S, k < at PROVE \E m \in (k + 1)..(at - 1) : IsCheck(container.ops[m], p)
        <5>1. k # j
          BY <2>1, <2>2
        <5>2. k \in Nat /\ j \in Nat /\ at \in Nat /\ ~(k > j) /\ j < at
          BY <2>1, <2>2, <4>1
        <5>3. j \in (k + 1)..(at - 1)
          BY <5>1, <5>2
        <5> QED BY <2>4, <5>3
      <4>2. Quiet(p)
        BY <3>8, <4>1 DEF Quiet
      <4>3. shown[p] # {} /\ shown[p] \subseteq {o.v}
        BY <3>2, <3>5, <3>6, <4>2 DEF PartInv
      <4> QED BY <4>3 DEF InForce
    <3> QED BY <3>7, <3>8
  <2> QED BY <2>7, <2>8
<1>2. IInv /\ IInv' /\ TrackInv /\ [Next]_vars => TrackInv'
  BY NextTrack
<1> QED BY <1>1, <1>2, InitTrack, Invariance, PTL DEF Spec

=============================================================================
