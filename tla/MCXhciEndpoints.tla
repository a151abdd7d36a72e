-------------------------- MODULE MCXhciEndpoints --------------------------
(* Instances of XhciEndpoints for TLC: an interface with two settings that  *)
(* share an endpoint, and one with an isochronous endpoint.                 *)
EXTENDS XhciEndpoints

MCInterfaces == {0, 1}
MCSettings == {0, 1}
MCEndpoints == [x \in MCInterfaces \X MCSettings |->
                  CASE x = <<0, 0>> -> {2, 3} [] x = <<0, 1>> -> {3, 5}
                    [] x = <<1, 0>> -> {} [] x = <<1, 1>> -> {6, 7}]
MCIsochronous == {7}
=============================================================================
