-------------------------- MODULE MCRetentionLoop --------------------------
(* Every list of up to three files, aged 0 to 2, of 0 to 2 bytes.          *)
EXTENDS RetentionLoop

CONSTANT Length

MCName == 1..Length

MCFileList ==
    UNION {{[i \in 1..n |-> [path |-> i, mtime |-> age[i], size |-> size[i]]] :
               age, size \in [1..n -> 0..2]} : n \in 0..Length}
=============================================================================
