------------------------------ MODULE MCPipeIO ------------------------------
(***************************************************************************)
(* Requests of 1 to 4 bytes with a first read of 2: shorter than it, as    *)
(* long, and longer by one and by two.  One reply fits into the pipe, one  *)
(* fills it, one is longer than its buffer.                                *)
(***************************************************************************)
EXTENDS PipeIO

MCMessages == {<<1>>, <<2, 1>>, <<3, 1, 1>>, <<4, 1, 2, 3>>}

MCResponse == (<<1>> :> <<1>>) @@ (<<2, 1>> :> <<2, 2>>)
                @@ (<<3, 1, 1>> :> <<3>>) @@ (<<4, 1, 2, 3>> :> <<4, 4, 4>>)

MCRefusal == <<9>>
=============================================================================
