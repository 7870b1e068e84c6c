------------------------ MODULE MCIncrementalBuild ------------------------
(***************************************************************************)
(* Instances of IncrementalBuild for TLC: a library of one object, which   *)
(* includes a header and a generated header.                               *)
(*                                                                         *)
(*     dir <- lib -> obj -> src, hdr, gen        gen -> src                *)
(***************************************************************************)
EXTENDS IncrementalBuild

CONSTANTS dir, src, hdr, gen, obj, lib

MCLead == [n \in {obj, lib} |-> IF n = obj THEN src ELSE dir]

\* Every edit of src adds or removes the include of hdr; the library always lists obj
MCDiscovers == [n \in {obj, lib} |-> IF n = obj THEN <<{gen}, {gen, hdr}>> ELSE <<{obj}>>]

Usual == [pre |-> [n \in Outputs |-> IF n = obj THEN {gen} ELSE {}],
          static |-> [n \in Outputs |-> IF n = lib THEN {dir} ELSE {src}],
          props |-> [n \in Outputs |-> 1]]

OtherGen == [Usual EXCEPT !.props[gen] = 2]
OtherLib == [Usual EXCEPT !.props[lib] = 2, !.props[obj] = 2]

\* More dependencies between the outputs
Edges == {"pre", "static"} \X Outputs \X Outputs
With(edges) ==
    [Usual EXCEPT
        !.pre = [n \in Outputs |-> @[n] \cup {d \in Outputs : <<"pre", n, d>> \in edges}],
        !.static = [n \in Outputs |-> @[n] \cup {d \in Outputs : <<"static", n, d>> \in edges}]]

OneBff == {Usual}
ThreeBffs == {Usual, OtherGen, OtherLib}

\* All build descriptions with two more dependencies; and one with three, on which a node
\* can fail in a visit below its own
TwoMore == {With({e, f}) : e \in Edges, f \in Edges}
      \cup {With({<<"pre", lib, obj>>, <<"pre", lib, gen>>, <<"pre", obj, lib>>})}

LibOnly == {{lib}}
===========================================================================
