------------------------------- MODULE Tagging -------------------------------
(***************************************************************************)
(* The representation of a machine word by runtime/tagging.h.  Memory is   *)
(* addressed in words of INT_SIZE bytes, and the contents of a word are a   *)
(* number of bytes, so the low bit that tells a pointer from an integer is  *)
(* visible: the word that points at word address a is INT_SIZE * a + 1, and *)
(* the word of the integer n is 2 * n.                                      *)
(***************************************************************************)
EXTENDS Integers

INT_SIZE == 4
INT_TAG == 0
PTR_TAG == 1

TagPointer(a) == INT_SIZE * a + PTR_TAG
UntagPointer(w) == (w - PTR_TAG) \div INT_SIZE
HasPointerTag(w) == w % 2 = PTR_TAG

TagInt(n) == 2 * n + INT_TAG
=============================================================================
