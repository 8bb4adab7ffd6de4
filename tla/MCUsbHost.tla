----------------------------- MODULE MCUsbHost -----------------------------
(***************************************************************************)
(* Device lists for TLC: the pad alone, behind other devices, absent, and  *)
(* behind devices that share its product number; and a device with more    *)
(* interrupt endpoints than endp_list has cells.                           *)
(***************************************************************************)
EXTENDS UsbHost

Mouse == [product |-> 7, interfaces |-> << <<[address |-> 129, type |-> 3]>> >>, drivers |-> {1}]

\* A composite device with drivers, two interrupt endpoints in its first
\* interface and one in each of the others.
Twin == [product    |-> ID_PRODUCT,
         interfaces |-> << <<[address |-> 129, type |-> 3], [address |-> 130, type |-> 3]>>,
                           <<[address |-> 2, type |-> 2], [address |-> 3, type |-> 3]>>,
                           <<[address |-> 132, type |-> 3]>> >>,
         drivers    |-> {1, 3}]

\* A storage device: bulk endpoints only, in front of an interrupt one.
Store == [product    |-> ID_PRODUCT,
          interfaces |-> << <<[address |-> 129, type |-> 2], [address |-> 2, type |-> 2]>>,
                            <<[address |-> 131, type |-> 3]>> >>,
          drivers    |-> {1}]

\* Twelve interrupt endpoints and, in between, an interface without one.
Wide == [product    |-> ID_PRODUCT,
         interfaces |-> [n \in 1..13 |-> <<[address |-> 128 + n,
                                           type    |-> IF n = 4 THEN 2 ELSE 3]>>],
         drivers    |-> {13}]

MCLists == {<<>>, <<PAD>>, <<Mouse>>, <<Mouse, PAD>>, <<PAD, Twin>>, <<Twin, PAD>>,
            <<Store>>, <<Mouse, Twin, Store>>, <<Wide>>}

MCPad == {<<PAD>>}
=============================================================================
