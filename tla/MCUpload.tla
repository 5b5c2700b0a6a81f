------------------------------ MODULE MCUpload ------------------------------
(* The uploads of the dialog for TLC. *)
EXTENDS UploadDialog, MCIngestion

\* A request is only told from another by what it sends.
AnyRequest == Permutations(Request)

\* The two uploads begin with different notas, of which the dialog follows one or the
\* other; uploads of one nota are what the run `jobs` is about.
FirstDiffers ==
  \A r, s \in Request :
    r = s \/ <<>> \in {req[r].batch, req[s].batch} \/ req[r].batch[1].key # req[s].batch[1].key
=============================================================================
