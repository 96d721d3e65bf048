------------------------------ MODULE MCDocker ------------------------------
(* Three containers in all, more than fit the list of two, and three names *)
(* of which `web` stands for one made of 12 hexadecimal digits.            *)
EXTENDS Docker

CONSTANTS web, db
=============================================================================
