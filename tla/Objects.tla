------------------------------ MODULE Objects ------------------------------
(***************************************************************************)
(* The types and globals of a program, and its functions for memory.       *)
(***************************************************************************)
EXTENDS Code

CONSTANTS
  FieldTypes,   \* the fields of a type: what each points to, or Scalar
  PointeeTy,    \* what a variable points to
  Globals,      \* the global variables, a sequence
  Presets,      \* pointers in their initialisers: variable, field, variable
  Allocators,   \* external functions, which allocate or
  Deallocators  \* free their first argument

Scalar == "scalar"
GlobalNo(v) == CHOOSE k \in DOMAIN Globals : Globals[k] = v
IsGlobal(v) == v \in ToSet(Globals)
GlobalLoc(v) == Loc(<<0, GlobalNo(v)>>, <<>>)
=============================================================================
