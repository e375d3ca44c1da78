---------------------------- MODULE MCHttpServer ----------------------------
(* HttpServer on a small instance: three connections are the fewest with one *)
(* completed by the kernel, one managed and one being destroyed at once.     *)
EXTENDS HttpServer, TLC

\* Connections are interchangeable: no property and no action tells them apart.
Symmetry == Permutations(Conn)

=============================================================================
