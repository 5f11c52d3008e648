----------------------------- MODULE MCMemeReaders ----------------------------
(* MemeReaders on a small instance: meme 3 is uploaded meanwhile, meme 4    *)
(* belongs to another account.                                              *)
EXTENDS MemeReaders, TLC

FourMemes == 1 .. 4
OwnerOf == [m \in FourMemes |-> IF m = 4 THEN "b" ELSE "a"]
SomeVideos == {1, 3}
SomeMatching == {1, 3}
FirstMemes == 1 :> 1 @@ 2 :> 2 @@ 4 :> 1
NearText == <<1, 3, 1, 4>>
OneReader == [s \in {"reader", "deleter"} |->
  IF s = "reader" THEN {"export", "exportAll", "web", "inline", "random"}
  ELSE {"wipe", "delete"}]
SomeQueries == {NoQuery, [of |-> "text", id |-> 0], [of |-> "id", id |-> 1]}
=============================================================================
