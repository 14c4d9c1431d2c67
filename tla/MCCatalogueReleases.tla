------------------------ MODULE MCCatalogueReleases ------------------------
(***************************************************************************)
(* CatalogueReleases with what an author may add: a revision with other    *)
(* documents, which an endpoint image has not been built for yet; one that *)
(* refers to another workflow's endpoint contract, to a provisioner        *)
(* contract of another name, or to one which is not there yet; and         *)
(* revisions with a missing or a malformed document, among them two that   *)
(* the next promotion may complete.  They are numbered like the next       *)
(* promotion, or beyond all promotions, or not at all.                     *)
(***************************************************************************)
EXTENDS CatalogueReleases, TLC

CONSTANT OtherDocs

Sound(w) == [docs |-> OtherDocs, provisioner |-> <<Provisioner, First>>,
             endpoint |-> <<w, First>>, files |-> "whole"]

MCAuthored ==
    LET Faulty(w) ==
            {[Sound(w) EXCEPT !.provisioner = <<Provisioner, <<0, 1>>>>],
             [Sound(w) EXCEPT !.provisioner = <<w, First>>],
             [Sound(w) EXCEPT !.files = "missing"],
             [Sound(w) EXCEPT !.files = "malformed"]}
              \cup {Sound(v) : v \in Workflow \ {w}}
        Partial(w) ==
            {[Sound(w) EXCEPT !.files = "missing", !.docs = InitialDocs],
             [Sound(w) EXCEPT !.files = "missing", !.provisioner = <<Provisioner, <<0, 1>>>>]}
    IN UNION {{<<w, <<0, 1>>>>, <<w, <<1, 0>>>>} \X {Sound(w)}
                \cup {<<w, <<1, 0>>>>} \X Faulty(w)
                \cup {<<w, <<0, 1>>>>} \X Partial(w)
                \cup {<<w, OddName>>} \X {Sound(w)} : w \in Workflow}

Symmetry == Permutations(Workflow)
=============================================================================
