-------------------------------- MODULE Utils --------------------------------
(***************************************************************************)
(* The string helpers of utils.h.  A text is a sequence of characters with *)
(* a NUL behind it; a view is the place of its first character and its     *)
(* length.                                                                 *)
(***************************************************************************)
EXTENDS Integers, Sequences, SequencesExt

NUL == "NUL"
At(text, p) == IF p > Len(text) THEN NUL ELSE text[p]
Between(text, first, end) == SubSeq(text, first, end - 1)
Viewed(text, view) == SubSeq(text, view.first, view.first + view.length - 1)

isspace(ch) == ch \in {" ", "HT", "CR", "LF"}

\* The first place from p on that holds no blank (at the latest the NUL).
NonBlank(text, p) ==
  CHOOSE q \in p..(Len(text) + 1) :
    ~isspace(At(text, q)) /\ \A r \in p..(q - 1) : isspace(text[r])

leftTrim(str) == Between(str, NonBlank(str, 1), Len(str) + 1)

\* The first character stays even if it is a blank.
rightTrim(str) ==
  LET kept == {q \in DOMAIN str : q = 1 \/ ~isspace(str[q])}
  IN Between(str, 1, IF kept = {} THEN 1 ELSE 1 + CHOOSE q \in kept : \A r \in kept : r <= q)

trim(str) == rightTrim(leftTrim(str))

\* Variant: the right end is taken before the left blanks are left out.
trim_view_end(text, view) ==
  LET data == NonBlank(text, view.first)
      kept == {q \in data..(data + view.length - 1) : q <= Len(text) /\ ~isspace(text[q])}
  IN [first |-> data, length |-> IF kept = {} THEN 0
                                 ELSE 1 + (CHOOSE q \in kept : \A r \in kept : r <= q) - data]

\* trim(string_view&): the left loop does not look at the length, so a view of
\* blanks alone is followed to the next other character of the text; the
\* length is then negative (a huge size_t) unless that is where the view ends.
trim_view(text, view) ==
  LET data == NonBlank(text, view.first)
      length == view.length - (data - view.first)
      kept == {q \in data..(data + length - 1) : ~isspace(text[q])}
  IN [first |-> data, length |-> IF length < 0 THEN length
                                 ELSE IF kept = {} THEN 0
                                 ELSE 1 + (CHOOSE q \in kept : \A r \in kept : r <= q) - data]

npos == 0
find(src, delimiter, pos) ==
  LET places == {q \in pos..(Len(src) - Len(delimiter) + 1) :
                   SubSeq(src, q, q + Len(delimiter) - 1) = delimiter}
  IN IF places = {} THEN npos ELSE CHOOSE q \in places : \A r \in places : q <= r

RECURSIVE split_from(_, _, _)

\* The loop of stringSplit from pos1 on: nothing follows a delimiter at the end.
split_from(src, delimiter, pos1) ==
  LET pos2 == find(src, delimiter, pos1)
  IN IF pos2 # npos
     THEN <<Between(src, pos1, pos2)>> \o split_from(src, delimiter, pos2 + Len(delimiter))
     ELSE IF pos1 # Len(src) + 1 THEN <<Between(src, pos1, Len(src) + 1)>> ELSE <<>>

\* A delimiter is a character or a text; an empty text is found for ever.
stringSplit(src, delimiter) == split_from(src, delimiter, 1)

RECURSIVE slice_from(_, _, _)

slice_from(src, delimiter, pos1) ==
  LET pos2 == find(src, delimiter, pos1)
  IN IF pos2 # npos
     THEN <<[first |-> pos1, length |-> pos2 - pos1]>>
            \o slice_from(src, delimiter, pos2 + Len(delimiter))
     ELSE IF pos1 # Len(src) + 1 THEN <<[first |-> pos1, length |-> Len(src) + 1 - pos1]>> ELSE <<>>

stringSlice(src, delimiter) == slice_from(src, delimiter, 1)

RECURSIVE num_from(_, _, _)

num_from(src, delimiter, pos1) ==
  LET pos2 == find(src, delimiter, pos1)
  IN IF pos2 # npos THEN 1 + num_from(src, delimiter, pos2 + 1)
     ELSE IF pos1 # Len(src) + 1 THEN 1 ELSE 0

splitNum(src, delimiter) == num_from(src, delimiter, 1)
==============================================================================
