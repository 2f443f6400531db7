------------------------------ MODULE UploadMC ------------------------------
(* Upload for TLC: programs of three and two bytes under a name, under one   *)
(* that is changed to the same, under one that is escaped, under one that is *)
(* too long; a body that is too short in each form, and one without a name.  *)
EXTENDS Upload

Letters == {"a", "_"}

Post(form, name, escaped, size) ==
    [form |-> form, name |-> name, escaped |-> escaped, size |-> size]

Bodies ==
    {Post("named", <<"a", "_">>, FALSE, 3), Post("named", <<"a", "/">>, FALSE, 2),
     Post("named", <<"a", "/">>, TRUE, 2), Post("named", <<"a", "a", "a">>, FALSE, 1),
     Post("named", <<"a", "_">>, FALSE, 0), Post("bare", <<"a", "_">>, FALSE, 0),
     Post("unnamed", <<>>, FALSE, 2), Post("unnamed", <<>>, FALSE, 7)}

=============================================================================
