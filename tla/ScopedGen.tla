----------------------------- MODULE ScopedGen -----------------------------
(***************************************************************************)
(* How target_codegen_prog, target_codegen_func and target_codegen_expr of *)
(* code_gen.c walk the contexts, find the storage of variables and use     *)
(* labels.  The instructions and registers are those of CodeGen.           *)
(*                                                                         *)
(* A level is a list of statements being generated: its context, the child *)
(* context of the next block in it (ctx_next_child), the item of what the  *)
(* current statement assigns to, the labels that are still to be printed   *)
(* when its block ends, and whether it is the body of a function.          *)
(***************************************************************************)
EXTENDS Contexts, Labels

CONSTANT WordSize   \* bytes a variable takes, and a parameter: 8 in the code

VARIABLES
  gpos,    \* the item of the AST to be generated next; 0 before the walk
  glevels, \* [ctx, next, target, labels, fn], innermost last
  funcs,   \* the CGContexts, innermost last: [id, locals, offset]
  ring,    \* label_arr, label_cnt, label_idx
  cells,   \* history: the cells found for variables
  failed   \* whether print_error ended the generation

genVars == << gpos, glevels, funcs, ring, cells, failed >>

NoTarget == 0

GenLevel(c, next, labels, fn) ==
  [ctx |-> c, next |-> next, target |-> NoTarget, labels |-> labels, fn |-> fn]

\* create_cgcontext, create_cgcontext_child: the function, the offsets of its
\* variables in its frame, and local_offset, which starts below four words.
InitialOffset == 0 - 4 * WordSize

CGContext(id, locals) == [id |-> id, locals |-> locals, offset |-> InitialOffset]

GenAt(k) == gpos \in DOMAIN ast /\ ~failed /\ ast[gpos].k = k
Here     == glevels[Len(glevels)]
Below    == SubSeq(glevels, 1, Len(glevels) - 1)
Func     == funcs[Len(funcs)]

GoOn == gpos' = gpos + 1 /\ UNCHANGED failed
GiveUp == failed' = TRUE /\ UNCHANGED << gpos, glevels, funcs, ring, cells >>

(***************************************************************************)
(* A cell: global storage of a name, or an offset in the frame of a        *)
(* function.  A use is recorded with the declaration the parser found for  *)
(* it, the cell of the variable and how far from its beginning the use     *)
(* reads or writes.                                                        *)
(***************************************************************************)
GlobalCell(x)     == [func |-> 0, name |-> x, offset |-> 0]
LocalCell(offset) == [func |-> Func.id, name |-> "", offset |-> offset]

\* The item the one at i is the operand of, if that is a prefix.
Prefix(i)  == IF i > 1 THEN ast[i - 1] ELSE Plain("none")
Indexed(i) == Prefix(i).k = "index"

\* TYPE_ARR_INDEX: the size of the element type is that of an int.
Displacement(i) == IF Indexed(i) THEN Prefix(i).x * WordSize ELSE 0

Found(i, cell) == [d |-> ast[i].means.d, x |-> ast[i].x, cell |-> cell, disp |-> Displacement(i)]

\* TYPE_VAR_ACCESS: the locals of the function, then those of the functions
\* around it, then global storage.
Holding(x) == {i \in DOMAIN funcs : IsBound(funcs[i].locals, x)}

CellOf(x) ==
  IF Holding(x) = {} THEN GlobalCell(x)
  ELSE LocalCell(GetEnv(funcs[CHOOSE i \in Holding(x) : \A j \in Holding(x) : j <= i].locals, x))

\* map_sym_to_addr: storing, it looks at the function itself only.
Assignable(x) == Len(funcs) = 1 \/ IsBound(Func.locals, x)
TargetCell(x) == IF Len(funcs) = 1 THEN GlobalCell(x) ELSE LocalCell(GetEnv(Func.locals, x))

(***************************************************************************)
(* map_sym_to_addr is asked for the address of what is assigned to, unless *)
(* that is reached through a pointer, and for the operand of TYPE_ADDROF   *)
(* and TYPE_ARR_INDEX; all others are TYPE_VAR_ACCESS.                     *)
(***************************************************************************)
ByAddress(i) == Prefix(i).k \in {"addr", "index"} \/ (ast[i].k = "set" /\ Prefix(i).k # "deref")

CanFind(i) == ByAddress(i) => Assignable(ast[i].x)
CellAt(i)  == IF ByAddress(i) THEN TargetCell(ast[i].x) ELSE CellOf(ast[i].x)

(***************************************************************************)
(* What happens at the end of a statement: TYPE_VAR_REASSIGNMENT stores    *)
(* when the right-hand side has been generated.                            *)
(***************************************************************************)
StoreOk == Here.target = NoTarget \/ CanFind(Here.target)

Stored == IF Here.target = NoTarget THEN cells
          ELSE cells \cup {Found(Here.target, CellAt(Here.target))}

\* Seeded fault (see README.md): the level does not move on.
EnterBlockAgain(ls, labels, fn) ==
  LET up == ls[Len(ls)] IN
  IF up.next = NULL THEN Append(ls, GenLevel(up.ctx, NULL, labels, fn))
                    ELSE Append(ls, GenLevel(up.next, FirstChild(up.next), labels, fn))

\* Entering the next child context of the level on top of ls: the level moves
\* on at once; without a child context the block is generated in the level's own.
EnterBlock(ls, labels, fn) ==
  LET up == ls[Len(ls)] IN
  IF up.next = NULL THEN Append(ls, GenLevel(up.ctx, NULL, labels, fn))
  ELSE Append([ls EXCEPT ![Len(ls)].next = NextChild(up.next)],
              GenLevel(up.next, FirstChild(up.next), labels, fn))

-----------------------------------------------------------------------------
\* target_codegen_prog.
BeginGen ==
  /\ gpos = 0
  /\ gpos' = 1
  /\ glevels' = << GenLevel(here, FirstChild(here), << >>, FALSE) >>
  /\ funcs' = << CGContext(0, EmptyEnv) >>
  /\ UNCHANGED << ring, cells, failed >>

\* Nodes that touch neither contexts nor storage.
GenOther ==
  /\ \E k \in {"int", "null", "op", "addr", "deref", "index", "call", "arg", "if", "func", "param"} : GenAt(k)
  /\ GoOn
  /\ UNCHANGED << glevels, funcs, ring, cells >>

\* TYPE_VAR_ACCESS, also of the function called, after its arguments; and the
\* operands of TYPE_ADDROF and TYPE_ARR_INDEX.
GenVar ==
  /\ GenAt("use") \/ GenAt("ret")
  /\ IF CanFind(gpos)
     THEN /\ cells' = cells \cup {Found(gpos, CellAt(gpos))}
          /\ GoOn
          /\ UNCHANGED << glevels, funcs, ring >>
     ELSE GiveUp

\* TYPE_VAR_REASSIGNMENT: the right-hand side is generated first.
GenAssign ==
  /\ GenAt("set")
  /\ glevels' = [glevels EXCEPT ![Len(glevels)].target = gpos]
  /\ GoOn
  /\ UNCHANGED << funcs, ring, cells >>

\* Seeded fault: a declaration does not move local_offset.
GenDeclareInPlace ==
  /\ GenAt("decl")
  /\ funcs' = IF Len(funcs) = 1 THEN funcs
              ELSE [funcs EXCEPT ![Len(funcs)].locals = SetEnv(@, ast[gpos].x, InitialOffset - WordSize)]
  /\ GoOn
  /\ UNCHANGED << glevels, ring, cells >>

\* parser_get_type: the bytes a variable of type T takes.
SizeOf(T) == IF T.sym = "array" /\ T.ptr = 0 THEN ArrayLen * WordSize ELSE WordSize

\* TYPE_VAR_DECLARATION: storage outside functions is reserved by
\* target_codegen_prog.
GenDeclare ==
  /\ GenAt("decl")
  /\ LET x == ast[gpos].x
         offset == Func.offset - SizeOf(GetVar(Here.ctx, x).ty)
     IN  CASE Len(funcs) = 1 -> GoOn /\ UNCHANGED funcs
           [] Len(funcs) > 1 /\ Visible(Here.ctx, x) ->
                /\ funcs' = [funcs EXCEPT ![Len(funcs)].offset = offset,
                                          ![Len(funcs)].locals = SetEnv(@, x, offset)]
                /\ GoOn
           [] OTHER -> failed' = TRUE /\ UNCHANGED << gpos, funcs >>
  /\ UNCHANGED << glevels, ring, cells >>

\* TYPE_FUNCTION and target_codegen_func up to the body: a label, a frame with
\* the parameter above the return address, and the context of the body.
GenBody ==
  /\ GenAt("body")
  /\ LET g      == GenLabel(ring)
         before == ast[gpos - 1]
         params == IF before.k = "param" THEN SetEnv(EmptyEnv, before.x, 2 * WordSize) ELSE EmptyEnv
     IN  /\ ring' = g.ring
         /\ funcs' = Append(funcs, CGContext(gpos, params))
         /\ glevels' = EnterBlock(glevels, << g.label >>, TRUE)
  /\ GoOn
  /\ UNCHANGED cells

\* TYPE_IF_CONDITION after its condition: else_label and after_else_label.
GenThen ==
  /\ GenAt("then")
  /\ LET g1 == GenLabel(ring)
         g2 == GenLabel(g1.ring)
     IN  /\ ring' = g2.ring
         /\ glevels' = EnterBlock(glevels, << g1.label, g2.label >>, FALSE)
  /\ GoOn
  /\ UNCHANGED << funcs, cells >>

\* else_label is printed; after_else_label is kept until the else ends.
GenElse ==
  /\ GenAt("else")
  /\ IF StoreOk
     THEN /\ cells' = Stored
          /\ glevels' = EnterBlock(Below, Tail(Here.labels), FALSE)
          /\ GoOn
          /\ UNCHANGED << funcs, ring >>
     ELSE GiveUp

\* The end of a block: its labels are printed.  A lambda's frame goes with it.
GenEnd ==
  /\ GenAt("end")
  /\ IF StoreOk
     THEN /\ cells' = Stored
          /\ glevels' = Below
          /\ funcs' = IF Here.fn THEN SubSeq(funcs, 1, Len(funcs) - 1) ELSE funcs
          /\ GoOn
          /\ UNCHANGED ring
     ELSE GiveUp

\* Seeded fault: the loop does not go on to the next statement.
GenNextInPlace ==
  /\ GenAt("next")
  /\ IF StoreOk
     THEN /\ cells' = Stored
          /\ glevels' = [glevels EXCEPT ![Len(glevels)].target = NoTarget]
          /\ UNCHANGED << gpos, failed, funcs, ring >>
     ELSE GiveUp

\* The next statement of the list.
GenNext ==
  /\ GenAt("next")
  /\ IF StoreOk
     THEN /\ cells' = Stored
          /\ glevels' = [glevels EXCEPT ![Len(glevels)].target = NoTarget]
          /\ GoOn
          /\ UNCHANGED << funcs, ring >>
     ELSE GiveUp

EndGen ==
  /\ gpos = Len(ast) + 1 /\ ~failed
  /\ IF StoreOk
     THEN cells' = Stored /\ GoOn /\ UNCHANGED << glevels, funcs, ring >>
     ELSE GiveUp

Generated == gpos = Len(ast) + 2

-----------------------------------------------------------------------------
GenInit ==
  /\ gpos = 0
  /\ glevels = << >>
  /\ funcs = << >>
  /\ ring = NoLabels
  /\ cells = {}
  /\ failed = FALSE

GenNextStep ==
  \/ BeginGen \/ GenOther \/ GenVar \/ GenAssign \/ GenDeclare
  \/ GenBody \/ GenThen \/ GenElse \/ GenEnd \/ GenNext \/ EndGen
=============================================================================
