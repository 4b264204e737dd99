----------------------------- MODULE Bytecode -----------------------------
(***************************************************************************)
(* The importer's analysis of a method: the decoder of its bytecode, the   *)
(* control-flow graph built from what was decoded, the lowering to a typed *)
(* IR, which decodes the bytes a second time and simulates the operand     *)
(* stack from the first instruction to the last, and the classification.   *)
(*                                                                         *)
(* A method is written nondeterministically and analysed in one step, as   *)
(* analyze_method does; then a virtual machine executes the same bytecode, *)
(* so that the properties can compare the reports with executions.         *)
(*                                                                         *)
(* An operation stands for a family of opcodes that are decoded, lowered   *)
(* and executed alike.  Names, descriptors, types other than the width of  *)
(* a value and what the constant pool resolves to are left out.  A wide    *)
(* local is known by its first slot.                                       *)
(***************************************************************************)
EXTENDS Integers, Sequences, FiniteSets, FiniteSetsExt, SequencesExt

CONSTANTS
  Vocabularies,   \* records of common and rare operations; a method is
                  \* written with those of one
  Locals,         \* the local variables methods use
  MaxWeight,      \* bound: instructions of a method, a rare one or an
                  \* exception handler counting for two
  MaxStack        \* bound: values on the operand stack of an execution

ASSUME BytecodeAssumption == MaxWeight \in Nat /\ MaxStack \in Nat

VARIABLES
  code,       \* the method's instructions
  handlers,   \* its exception table: instructions covered, and the handler
  report,     \* what the importer reports, or NoReport
  pc, came,   \* the executing machine's instruction, and the one before it
  stack       \* its operand stack: which instruction pushed each value

vars == <<code, handlers, report, pc, came, stack>>

Words(v) == v.common \cup v.rare
Operations == UNION {Words(v) : v \in Vocabularies}

Ifs == {"if", "if2"}
Subroutines == {"jsr", "ret", "wide_ret"}
BranchOps == Ifs \cup {"goto", "goto_w", "jsr"}
Jumps == BranchOps \cup {"switch"}
Returns == {"return", "vreturn"}
Loads == {"load", "load2", "wide_load", "wide_load2"}
Stores == {"store", "store2", "wide_store", "wide_store2"}
Increments == {"iinc", "wide_iinc"}
LocalOps == Loads \cup Stores \cup Increments
\* The operations that push a wide value, and those that take one.
PushWide == {"const2", "load2", "wide_load2"}
TakeWide == {"store2", "wide_store2"}

---------------------------------------------------------------------------
\* Decoding

\* With one case, a tableswitch is as long as a lookupswitch.
SwitchWidth(at) == ((4 - ((at + 1) % 4)) % 4) + 17
DecodeWide(op) == IF op = "wide_iinc" THEN 6 ELSE 4
FixedWidth(op) ==
  CASE op \in {"ldc", "newarray"} -> 2
    [] op = "iinc" -> 3
    [] op = "multianewarray" -> 4
    [] OTHER -> 1
DecodeWidth(op, at) ==
  CASE op = "switch" -> SwitchWidth(at)
    [] op \in {"wide_load", "wide_load2", "wide_store", "wide_store2", "wide_iinc",
               "wide_ret"} -> DecodeWide(op)
    [] op \in {"goto_w", "invokeinterface"} -> 5
    [] op \in Ifs \cup {"goto", "jsr", "getstatic", "putstatic", "getfield",
                        "putfield", "invokestatic", "invokevirtual", "new",
                        "anewarray", "checkcast"} -> 3
    [] op = "ret" -> 2
    [] OTHER -> FixedWidth(op)

\* The decoded method c with exception table h: the offset of each instruction
\* and the length of the code.
Decode(c, h) ==
  LET At[i \in 1 .. Len(c) + 1] ==
        IF i = 1 THEN 0 ELSE At[i - 1] + DecodeWidth(c[i - 1].op, At[i - 1])
  IN [code |-> c, handlers |-> h, at |-> At, length |-> At[Len(c) + 1]]

Offsets(m) == {m.at[i] : i \in DOMAIN m.code}
InstructionAt(m, at) == CHOOSE i \in DOMAIN m.code : m.at[i] = at
OffsetsOf(m, ops) == {m.at[i] : i \in {j \in DOMAIN m.code : m.code[j].op \in ops}}

\* A jump goes to an instruction, to the end of the code, or into the middle
\* of an instruction, the jump itself.  A switch's case goes to the first one.
BranchTarget(m, i) == IF m.code[i].to = 0 THEN m.at[i] + 1 ELSE m.at[m.code[i].to]
CaseTarget == 0

---------------------------------------------------------------------------
\* The control-flow graph, with a block named by its first offset

NextOffset(m, at) == {m.at[i + 1] : i \in {j \in 1 .. Len(m.code) - 1 : m.at[j] = at}}

\* Mutant: the instruction after a conditional jump does not start a block.
LeadersWithoutNext(m) ==
  LET targets == {BranchTarget(m, i) : i \in {j \in DOMAIN m.code : m.code[j].op \in BranchOps}}
      ranges == UNION {{m.at[h.from], m.at[h.til], m.at[h.at]} : h \in m.handlers}
  IN {0} \cup ((targets \cup ranges) \cap Offsets(m))
Leaders(m) ==
  LET jumps == {j \in DOMAIN m.code : m.code[j].op \in Jumps}
      targets == {BranchTarget(m, i) : i \in jumps}
      ends == OffsetsOf(m, Jumps \cup Returns \cup {"athrow"})
      ranges == UNION {{m.at[h.from], m.at[h.til], m.at[h.at]} : h \in m.handlers}
      next == UNION {NextOffset(m, at) : at \in ends}
  IN {0} \cup next \cup ((targets \cup ranges) \cap Offsets(m))

BlockEnd(m, b) == Min({at \in m.leaders : at > b} \cup {m.length})
BlockOf(m, at) == Max({b \in m.leaders : b <= at})

Unreachable == {}
\* The blocks a terminator goes to, if all it mentions are blocks.
TerminatorSuccessors(m, b) ==
  LET end == BlockEnd(m, b)
      i == InstructionAt(m, Max({at \in Offsets(m) : at < end}))
      op == m.code[i].op
      target == BranchTarget(m, i)
      successors ==
        IF op = "switch" THEN {target, CaseTarget}
        ELSE IF op \in Ifs THEN {target, end}
        ELSE IF op \in BranchOps THEN {target}
        ELSE IF op \in Returns \cup {"athrow"} THEN {}
        ELSE {end} \cap m.leaders
  IN IF successors \subseteq m.leaders THEN successors ELSE Unreachable

RangesOverlap(l1, r1, l2, r2) == l1 < r2 /\ l2 < r1
HandlersOf(m, b) ==
  {m.at[h.at] : h \in {g \in m.handlers :
     RangesOverlap(b, BlockEnd(m, b), m.at[g.from], m.at[g.til])}}

BuildCfg(m) ==
  [b \in m.leaders |-> TerminatorSuccessors(m, b) \cup (HandlersOf(m, b) \cap m.leaders)]

---------------------------------------------------------------------------
\* The typed IR.  A value is known by the instruction that pushed it; Caught
\* is the exception that a handler starts with.

Value(at) == [by |-> at, kind |-> "pushed", wide |-> FALSE]
WideValue(at) == [Value(at) EXCEPT !.wide = TRUE]
Caught(at) == [Value(at) EXCEPT !.kind = "caught"]
Unknown == [Value(0) EXCEPT !.kind = "unknown"]

\* How an operation is lowered: the values it pops and pushes, and its width.
Takes(in, out, width) == [in |-> in, out |-> out, width |-> width, unsupported |-> FALSE]
Unsupported(width) == [Takes(0, 0, width) EXCEPT !.unsupported = TRUE]

LowerConstants ==
  [const |-> Takes(0, 1, 1), const2 |-> Takes(0, 1, 1), ldc |-> Takes(0, 1, 2),
   load |-> Takes(0, 1, 1), load2 |-> Takes(0, 1, 1)]
LowerArrays ==
  [arrayload |-> Takes(2, 1, 1), aaload |-> Takes(2, 1, 1), store |-> Takes(1, 0, 1),
   store2 |-> Takes(1, 0, 1), arraystore |-> Takes(3, 0, 1)]
LowerStack ==
  [pop |-> Takes(1, 0, 1), pop2 |-> Takes(2, 0, 1), dup |-> Takes(1, 2, 1),
   swap |-> Takes(2, 2, 1), dup_x1 |-> Unsupported(1)]
LowerArithmetic ==
  [binary |-> Takes(2, 1, 1), iinc |-> Takes(0, 0, 3), convert |-> Takes(1, 1, 1)]
LowerBranches ==
  [if |-> Takes(1, 0, 3), if2 |-> Takes(2, 0, 3), goto |-> Takes(0, 0, 3),
   jsr |-> Unsupported(3), ret |-> Unsupported(2),
   vreturn |-> Takes(1, 0, 1), return |-> Takes(0, 0, 1)]
LowerFields ==
  [getstatic |-> Takes(0, 1, 3), putstatic |-> Takes(1, 0, 3),
   getfield |-> Takes(1, 1, 3), putfield |-> Takes(2, 0, 3)]
\* With one argument and a result.
LowerInvoke ==
  [invokestatic |-> Takes(1, 1, 3), invokevirtual |-> Takes(2, 1, 3),
   invokeinterface |-> Takes(2, 1, 5)]
LowerObjects ==
  [new |-> Takes(0, 1, 3), newarray |-> Takes(1, 1, 2), anewarray |-> Takes(1, 1, 3),
   arraylength |-> Takes(1, 1, 1)]
\* With two dimensions.
LowerChecks ==
  [athrow |-> Takes(1, 0, 1), checkcast |-> Takes(1, 1, 3), monitor |-> Takes(1, 0, 1),
   multianewarray |-> Takes(2, 1, 4), goto_w |-> Takes(0, 0, 5)]
LowerWide ==
  [wide_load |-> Takes(0, 1, 4), wide_load2 |-> Takes(0, 1, 4),
   wide_store |-> Takes(1, 0, 4), wide_store2 |-> Takes(1, 0, 4),
   wide_iinc |-> Takes(0, 0, 6), wide_ret |-> Unsupported(4)]
LowerSwitch(at) == Takes(1, 0, SwitchWidth(at))

LoweringTables ==
  {LowerConstants, LowerArrays, LowerStack, LowerArithmetic, LowerBranches, LowerFields,
   LowerInvoke, LowerObjects, LowerChecks, LowerWide}
\* Methods are written with operations that have a lowering.
ASSUME OperationsAssumption ==
  Operations \subseteq {"switch"} \cup UNION {DOMAIN t : t \in LoweringTables}

Lowering(op, at) ==
  IF op = "switch" THEN LowerSwitch(at)
  ELSE LET table == CHOOSE t \in LoweringTables : op \in DOMAIN t
       IN table[op]

\* The n values popped, in the order they were pushed; what is missing is unknown.
Top(s, n) == SubSeq(s, Len(s) - n + 1, Len(s))
Rest(s, n) == SubSeq(s, 1, Len(s) - n)
Pop(s, n) == Top([i \in 1 .. n |-> Unknown] \o s, n)

\* pop2 takes one value when that is a wide one; dup duplicates the same value.
PopCount(op, in, s) == IF op = "pop2" /\ s # <<>> /\ Last(s).wide THEN 1 ELSE in
Pushed(op, v, out, popped) ==
  CASE op = "dup" -> <<popped[1], popped[1]>>
    [] op = "swap" -> <<popped[2], popped[1]>>
    [] OTHER -> [i \in 1 .. out |-> v]

\* The type of each local is declared, by the descriptor or the debug tables, or
\* that of the first value of a known type that the code stores there; a load
\* pushes a value of the type found so far.  The type of what underflows, of an
\* object's reference out of an array or of a local without a type is unknown.
Types == {"unknown", "narrow", "wide"}
TypeOf(v, untyped) ==
  IF v \in untyped THEN "unknown" ELSE IF v.wide THEN "wide" ELSE "narrow"
LoadsWide(c, b) == IF c.op \in Loads THEN b.locals[c.local] = "wide" ELSE c.op \in PushWide
LoadedValue(c, b) == IF LoadsWide(c, b) THEN WideValue(b.at) ELSE Value(b.at)
Untyped(c, b) ==
  IF c.op = "aaload" \/ (c.op \in Loads /\ b.locals[c.local] = "unknown")
    THEN {Value(b.at)} ELSE {}
InferLocal(c, b, popped) ==
  IF c.op \in Stores \cup Increments /\ b.locals[c.local] = "unknown"
    THEN [b.locals EXCEPT ![c.local] =
            IF c.op \in Increments THEN "narrow" ELSE TypeOf(popped[1], b.untyped)]
    ELSE b.locals

\* A handler's exception is on the stack when nothing else is.
\* Mutant: it is not.
SeedNever(m, s, at) == s
SeedHandler(m, s, at) ==
  IF s = <<>> /\ at \in {m.at[h.at] : h \in m.handlers} THEN <<Caught(at)>> ELSE s

\* One instruction after the other, at the offsets that lowering itself finds.
\* (A swap's operands are recorded here and not in the report.)
LowerInstruction(m, b) ==
  IF b.at \notin Offsets(m) THEN [b EXCEPT !.lost = TRUE]
  ELSE LET c == m.code[InstructionAt(m, b.at)]
           op == c.op
           how == Lowering(op, b.at)
           s == SeedHandler(m, b.stack, b.at)
           n == PopCount(op, how.in, s)
           popped == Pop(s, n)
           kept == CASE op = "swap" /\ Len(s) < 2 -> s
                     [] op = "dup" /\ s = <<>> -> <<Unknown>>
                     [] OTHER -> Rest(s, n) \o Pushed(op, LoadedValue(c, b), how.out, popped)
       IN [at |-> b.at + how.width,
           stack |-> kept,
           locals |-> InferLocal(c, b, popped),
           untyped |-> b.untyped \cup Untyped(c, b),
           used |-> [at \in DOMAIN b.used \cup {b.at} |->
                       IF at = b.at THEN popped ELSE b.used[at]],
           unsupported |-> b.unsupported \/ how.unsupported,
           lost |-> b.lost]

BuildIr(m) ==
  LET Lowered[i \in 0 .. Len(m.code)] ==
        IF i = 0 THEN [at |-> 0, stack |-> <<>>, locals |-> m.declared,
                       untyped |-> {Unknown}, used |-> <<>>, unsupported |-> FALSE,
                       lost |-> FALSE]
        ELSE LowerInstruction(m, Lowered[i - 1])
  IN Lowered[Len(m.code)]

\* Placeholders for the values where blocks join.
CfgMerges(cfg) ==
  {b \in DOMAIN cfg : Cardinality({a \in DOMAIN cfg : b \in cfg[a]}) >= 2}

---------------------------------------------------------------------------
\* Classification

LegacySubroutine(m) == \E i \in DOMAIN m.code : m.code[i].op \in Subroutines

Uses(m, ops) == \E i \in DOMAIN m.code : m.code[i].op \in ops
ReasonCodes(m) ==
  {r \in {"subroutine", "handlers", "switch", "throw", "monitor", "object", "dispatch",
          "arrays", "branching"} :
     CASE r = "subroutine" -> LegacySubroutine(m)
       [] r = "handlers" -> m.handlers # {}
       [] r = "switch" -> Uses(m, {"switch"})
       [] r = "throw" -> Uses(m, {"athrow"})
       [] r = "monitor" -> Uses(m, {"monitor"})
       [] r = "object" -> Uses(m, {"new"})
       [] r = "dispatch" -> Uses(m, {"invokevirtual", "invokeinterface"})
       [] r = "arrays" -> Uses(m, {"newarray", "anewarray", "multianewarray",
                                   "arraylength", "arrayload", "arraystore"})
       [] r = "branching" -> Cardinality({i \in DOMAIN m.code : m.code[i].op \in BranchOps}) > 8}
Classify(reasons) ==
  IF "subroutine" \in reasons THEN "red" ELSE IF reasons # {} THEN "yellow" ELSE "green"

NoReport == [color |-> "none"]
AnalyzeMethod(c, h, declared) ==
  LET decoded == Decode(c, h)
      m == [code |-> c, handlers |-> h, at |-> decoded.at, length |-> decoded.length,
            leaders |-> Leaders(decoded), declared |-> declared]
  IN [method |-> m, cfg |-> BuildCfg(m), merges |-> CfgMerges(BuildCfg(m)),
      ir |-> BuildIr(m), color |-> Classify(ReasonCodes(m))]

---------------------------------------------------------------------------
\* Writing a method, and analysing it

Weight(v) ==
  Len(code) + Cardinality({i \in DOMAIN code : code[i].op \in v.rare}) + 2 * Cardinality(handlers)
WrittenWith(v) == \A i \in DOMAIN code : code[i].op \in Words(v)

NoLocal == 0
Write(op) ==
  /\ report = NoReport
  /\ \E v \in Vocabularies :
       /\ op \in Words(v) /\ Weight(v) + (IF op \in v.rare THEN 2 ELSE 1) <= MaxWeight
       /\ WrittenWith(v)
  /\ \E to \in IF op \in Jumps THEN 0 .. MaxWeight ELSE {0},
        local \in IF op \in LocalOps THEN Locals ELSE {NoLocal} :
       code' = Append(code, [op |-> op, to |-> to, local |-> local])
  /\ UNCHANGED <<handlers, report, pc, came, stack>>

Protect ==
  /\ report = NoReport
  /\ \E v \in Vocabularies : Weight(v) + 2 <= MaxWeight /\ WrittenWith(v)
  /\ \E from, at \in DOMAIN code : \E til \in from + 1 .. Len(code) + 1 :
       handlers' = handlers \cup {[from |-> from, til |-> til, at |-> at]}
  /\ UNCHANGED <<code, report, pc, came, stack>>

\* The class file may declare the type of any local that the method uses.
Analyze ==
  /\ report = NoReport /\ code # <<>> /\ \A i \in DOMAIN code : code[i].to <= Len(code) + 1
  /\ \E declared \in [Locals -> Types] :
       /\ \A l \in Locals \ {code[i].local : i \in DOMAIN code} : declared[l] = "unknown"
       /\ report' = AnalyzeMethod(code, handlers, declared)
  /\ pc' = 1
  /\ UNCHANGED <<code, handlers, came, stack>>

---------------------------------------------------------------------------
\* The virtual machine, for the instructions of the model.  It executes a
\* method whose jumps go to instructions, up to the end if what would return
\* from it is missing, and stops where verification would have rejected what is
\* on the stack.  What it keeps in its locals is left out.

Verified ==
  /\ \A i \in DOMAIN code :
       code[i].op \in Jumps => code[i].to \in DOMAIN code
  /\ Last(code).op \notin Ifs

Effect(op) ==
  CASE op \in {"const", "const2", "ldc", "getstatic", "new"} \cup Loads -> <<0, 1>>
    [] op \in {"iinc", "wide_iinc", "goto", "goto_w", "return", "ret", "wide_ret"} -> <<0, 0>>
    [] op \in {"pop", "if", "switch", "vreturn", "putstatic", "athrow", "monitor"}
               \cup Stores -> <<1, 0>>
    [] op \in {"convert", "getfield", "invokestatic", "newarray", "anewarray",
               "arraylength", "checkcast"} -> <<1, 1>>
    [] op \in {"if2", "putfield"} -> <<2, 0>>
    [] op \in {"arrayload", "aaload", "binary", "invokevirtual", "invokeinterface",
               "multianewarray"} -> <<2, 1>>
    [] op = "arraystore" -> <<3, 0>>
    [] op = "jsr" -> <<0, 1>>
    [] op = "dup" -> <<1, 2>>
    [] op = "swap" -> <<2, 2>>
    [] op = "dup_x1" -> <<2, 3>>
    [] op = "pop2" -> <<2, 0>>

\* The operands of the instruction that executes next.
Operands(op, s) == Top(s, PopCount(op, Effect(op)[1], s))
Executable(op, s) ==
  /\ PopCount(op, Effect(op)[1], s) <= Len(s)
  /\ op # "pop2" =>
       \A i \in DOMAIN Operands(op, s) : Operands(op, s)[i].wide = (op \in TakeWide)

Results(op, s, at) ==
  LET in == Operands(op, s)
  IN IF op = "dup_x1" THEN <<in[2], in[1], in[2]>>
     ELSE Pushed(op, IF op \in PushWide THEN WideValue(at) ELSE Value(at), Effect(op)[2], in)

After(op, s, at) == Rest(s, Len(Operands(op, s))) \o Results(op, s, at)

NextPcs(i) ==
  LET op == code[i].op
  IN CASE op \in Ifs -> {i + 1, code[i].to}
       [] op = "switch" -> {1, code[i].to}
       [] op \in BranchOps \ Ifs -> {code[i].to}
       [] op \in {"ret", "wide_ret"} -> {j + 1 : j \in {k \in DOMAIN code : code[k].op = "jsr"}}
       [] op \in Returns \cup {"athrow"} -> {}
       [] OTHER -> {i + 1}

Execute ==
  /\ report # NoReport /\ Verified /\ Executable(code[pc].op, stack)
  /\ \E next \in NextPcs(pc) \cap DOMAIN code : pc' = next
  /\ came' = pc
  /\ stack' = After(code[pc].op, stack, report.method.at[pc])
  /\ Len(stack') <= MaxStack
  /\ UNCHANGED <<code, handlers, report>>

\* An instruction that completes abruptly.
Throw ==
  /\ report # NoReport /\ Verified /\ Executable(code[pc].op, stack)
  /\ \E h \in handlers :
       /\ h.from <= pc /\ pc < h.til
       /\ pc' = h.at /\ stack' = <<Caught(report.method.at[h.at])>>
  /\ came' = pc
  /\ UNCHANGED <<code, handlers, report>>

Init ==
  /\ code = <<>> /\ handlers = {} /\ report = NoReport
  /\ pc = 0 /\ came = 0 /\ stack = <<>>

Next ==
  \/ \E op \in Operations : Write(op)
  \/ Protect \/ Analyze \/ Execute \/ Throw

Spec == Init /\ [][Next]_vars

---------------------------------------------------------------------------
\* Properties

Running == report # NoReport

\* An execution only goes where the control-flow graph says: within a block to
\* the next instruction, or from a block's last instruction, or one that
\* throws, to a successor.  A method with subroutines is classified red
\* instead.
ExecutionFollowsCfg ==
  Running /\ came # 0 /\ report.color # "red" =>
    LET m == report.method
        from == BlockOf(m, m.at[came])
    IN \/ pc = came + 1 /\ BlockOf(m, m.at[pc]) = from
       \/ m.at[pc] \in report.cfg[from]

\* What a block's code leaves on the stack that it starts with, unless it gets
\* stuck, and the methods whose blocks start and end with an empty one, but for
\* the exception that a handler takes.
Stuck == <<Unknown>>
BlockStack(m, b) ==
  LET inside == {i \in DOMAIN m.code : b <= m.at[i] /\ m.at[i] < BlockEnd(m, b)}
      first == InstructionAt(m, b)
      S[i \in first .. Max(inside) + 1] ==
        IF i = first THEN IF b \in {m.at[h.at] : h \in m.handlers} THEN <<Caught(b)>> ELSE <<>>
        ELSE IF S[i - 1] # Stuck /\ Executable(m.code[i - 1].op, S[i - 1])
          THEN After(m.code[i - 1].op, S[i - 1], m.at[i - 1])
          ELSE Stuck
  IN S[Max(inside) + 1]
StatementWise(m) == \A b \in m.leaders : BlockStack(m, b) = <<>>

\* A local that is only ever used for values of one width, which is the one
\* declared if one is, and that is stored before it is read, in the order of the
\* code, when it holds a wide value and nothing declares it.  Lowering has one
\* type for a local, and finds the stores in that order.
WidthUsed(op) == IF op \in PushWide \cup TakeWide THEN "wide" ELSE "narrow"
LocalsKeepTheirWidth(m) ==
  \A i \in DOMAIN m.code :
    LET c == m.code[i]
        others == {j \in DOMAIN m.code : m.code[j].op \in LocalOps /\ m.code[j].local = c.local}
    IN c.op \in LocalOps =>
         /\ m.declared[c.local] \in {"unknown", WidthUsed(c.op)}
         /\ \A j \in others : WidthUsed(m.code[j].op) = WidthUsed(c.op)
         /\ c.op \in Loads \cap PushWide /\ m.declared[c.local] = "unknown" =>
              \E j \in others : j < i /\ m.code[j].op \in TakeWide

OperandsAgree ==
  Executable(code[pc].op, stack)
    => report.ir.used[report.method.at[pc]] = Operands(code[pc].op, stack)

\* Lowering decodes the bytes again: it visits the instructions that were
\* decoded, all of them and nothing else, and the operands that the IR gives
\* an instruction are those of every execution, in a method without unsupported
\* instructions that is made of statements and whose locals keep their width.
IrOperandsAreExecuted ==
  Running =>
    /\ ~ report.ir.lost /\ DOMAIN report.ir.used = Offsets(report.method)
    /\ StatementWise(report.method) /\ ~ report.ir.unsupported
         /\ LocalsKeepTheirWidth(report.method)
       => OperandsAgree
===========================================================================
