----------------------------- MODULE MCArchives -----------------------------
(* Three calls: a reader against a writer of every kind, some with a       *)
(* deletion, and against a transfer; two readers around a write; two       *)
(* downloads, two extractions, one of each; an extraction of an archive    *)
(* that is being made anew.                                                *)
EXTENDS Archives, TLC

CONSTANTS c1, c2, c3, f, g, a

MCPlans ==
    {(c1 :> k1 @@ c2 :> k2 @@ c3 :> k3) :
        <<k1, k2, k3>> \in
          (Readers \X Writers \X {"idle"})
          \cup ({"read_file", "list_directory"} \X {"write_file", "move"} \X {"delete_path"})
          \cup ({"read_file", "list_directory"} \X Transfers \X {"idle"})
          \cup {<<"read_file", "write_file", "read_file">>,
                <<"idle", "download_file", "download_file">>,
                <<"idle", "download_file", "extract_archive">>,
                <<"compress_archive", "extract_archive", "idle">>,
                <<"idle", "extract_archive", "extract_archive">>}}
=============================================================================
