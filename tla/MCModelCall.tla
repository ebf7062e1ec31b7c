---------------------------- MODULE MCModelCall ----------------------------
(* A catalogue of two tables of one name and a third without an owner.     *)
EXTENDS ModelCall

Ref(o, n) == [owner |-> o, name |-> n]

SomeCatalog == {Ref("X", "A"), Ref("Y", "A"), Ref(NoOwner, "B")}

(* A name of two owners, alone and with one, an owner and a name that are  *)
(* not there.                                                              *)
SomeTableLists ==
  {<<>>, <<Ref(NoOwner, "A")>>, <<Ref("Z", "A")>>,
   <<Ref(NoOwner, "B")>>, <<Ref(NoOwner, "C"), Ref("Y", "A")>>,
   <<Ref("X", "A"), Ref(NoOwner, "A")>>}

SomeDependencyLists ==
  {<<>>, <<Ref(NoOwner, "B")>>, <<Ref("X", "B"), Ref(NoOwner, "A")>>,
   <<Ref("Y", "A"), Ref(NoOwner, "C")>>}
=============================================================================
