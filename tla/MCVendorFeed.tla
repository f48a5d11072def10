---------------------------- MODULE MCVendorFeed ----------------------------
(***************************************************************************)
(* A small vendor feed: deposit A comes in two files, late in the second,   *)
(* under a renamed column and completed; deposit B, which the internal      *)
(* system records too, has an amount that the CRITICAL check counts; the    *)
(* second file is delivered again without B, with A's date corrected so    *)
(* that it is in time.                                                     *)
(***************************************************************************)
EXTENDS VendorFeed

RowOf(date, status, amount, drifted) ==
    [date |-> date, status |-> status, amount |-> amount, drifted |-> drifted]

First == [A |-> RowOf(1, "pending", 10, FALSE)]
Second == [A |-> RowOf(1, "completed", 10, TRUE), B |-> RowOf(2, "completed", -5, FALSE)]
SecondAgain == [A |-> RowOf(3, "completed", 10, FALSE)]

FeedContents == [f \in {1, 4} |-> IF f = 1 THEN <<First>> ELSE <<Second, SecondAgain>>]
FeedBad == [amount_usd |-> {-5}, payment_method |-> {10}]
FeedKeys == {<<2, -5>>}
=============================================================================
