------------------------------ MODULE MCGuiApp ------------------------------
(* A few presses of the buttons for GuiApp.                                 *)
EXTENDS GuiApp

MCFilters == {Identity, [kinds |-> {"deleted"}, sorted |-> TRUE]}
=============================================================================
