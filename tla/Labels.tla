------------------------------- MODULE Labels -------------------------------
(***************************************************************************)
(* gen_label of code_gen.c.  Labels are texts ".L0", ".L1", ... written    *)
(* one behind the other into one array of characters; the caller gets a    *)
(* pointer into the array, and when a text does not fit into the rest of   *)
(* the array the next one is written to its beginning, over what stands    *)
(* there.  Nothing is freed: a pointer is good as long as nobody writes    *)
(* where it points.                                                        *)
(*                                                                         *)
(* A character is the number of the label it was written for.              *)
(***************************************************************************)
EXTENDS Naturals

CONSTANT LabelArrSize   \* LABEL_ARR_SIZE, 1024 in the code

\* Decimal digits, and the characters of ".L%d" with its terminating zero.
Digits[n \in Nat] == IF n < 10 THEN 1 ELSE 1 + Digits[n \div 10]
Width(n)          == 2 + Digits[n] + 1

ASSUME LabelsAssumption == LabelArrSize \in Nat /\ LabelArrSize >= Width(0)

Unwritten == 0 - 1

NoLabels == [cnt |-> 0, idx |-> 0, arr |-> [i \in 0 .. LabelArrSize - 1 |-> Unwritten]]

Label(n, ptr) == [n |-> n, ptr |-> ptr]

\* snprintf(ptr, LABEL_ARR_SIZE - ptr, ".L%d", n): cut off at the end of the array.
Written(arr, ptr, n) ==
  [i \in DOMAIN arr |-> IF ptr <= i /\ i < ptr + Width(n) THEN n ELSE arr[i]]

\* Seeded fault (see README.md): the terminating zero is not counted.
GenLabelTight(r) ==
  LET arr == Written(r.arr, r.idx, r.cnt)
      ptr == IF r.idx + Width(r.cnt) <= LabelArrSize THEN r.idx ELSE 0
  IN  [ring  |-> [cnt |-> r.cnt + 1, idx |-> ptr + Width(r.cnt) - 1, arr |-> Written(arr, ptr, r.cnt)],
       label |-> Label(r.cnt, ptr)]

(***************************************************************************)
(* The pointer handed out and the state after it.  When the text does not  *)
(* fit, its beginning has been written to the end of the array in vain.    *)
(***************************************************************************)
GenLabel(r) ==
  LET arr == Written(r.arr, r.idx, r.cnt)
      ptr == IF r.idx + Width(r.cnt) <= LabelArrSize THEN r.idx ELSE 0
  IN  [ring  |-> [cnt |-> r.cnt + 1, idx |-> ptr + Width(r.cnt), arr |-> Written(arr, ptr, r.cnt)],
       label |-> Label(r.cnt, ptr)]

\* The text behind a pointer is still the one it was handed out for.
Intact(r, l) == \A i \in l.ptr .. l.ptr + Width(l.n) - 1 : r.arr[i] = l.n

(***************************************************************************)
(* Few enough labels have been generated since l: together with l, and     *)
(* with one that did not fit, they have room in the array.                 *)
(***************************************************************************)
Recent(r, l) == (r.cnt - l.n + 1) * Width(r.cnt) <= LabelArrSize
=============================================================================
