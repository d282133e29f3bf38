------------------------------ MODULE MCSockets ------------------------------
(* Two processes and three sockets at most.                                *)
EXTENDS Sockets

Kind(domain, type) == [Domain |-> domain, Type |-> type]
MCKinds == {Kind("unix", "stream"), Kind("unix", "dgram"), Kind("inet", "stream"),
            Kind("netlink", "dgram")}
MCAddresses == {Address("unix", 0, 1), Address("inet", 0, 1), Address("inet", 1, 1),
                Address("netlink", 0, 1), Address("netlink", 0, 0)}
MCTimeouts == {0, 2, Forever}
=============================================================================
