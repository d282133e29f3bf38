----------------------------- MODULE MCKernelHeap -----------------------------
(* A heap whose slabs hold two objects of the small class or one of the    *)
(* large one.                                                              *)
EXTENDS KernelHeapManager

ClassSizes == <<4, 8>>
=============================================================================
