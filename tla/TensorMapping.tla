---------------------------- MODULE TensorMapping ----------------------------
(***************************************************************************)
(* The tensor map of one run (src/src/semantic/tensor_mapping.cpp): which  *)
(* bit of which element of which TensorRT binding lives at which bit of    *)
(* which byte of GPU memory, and back.  The map is a vector of descriptors *)
(* that add_tensor extends after its checks; both directions are pure      *)
(* functions of it.  The code throws where an operator here has no answer: *)
(* the set of answers is empty there, and a singleton where it returns.    *)
(***************************************************************************)
EXTENDS AllocationRegistry, SequencesExt

\* The element types and dtype_size_bytes of each.
ElementBytes == [uint8 |-> 1, int8 |-> 1, float32 |-> 4, int32 |-> 4]

\* tensor_element_count; size_t arithmetic is checked at every factor, so a
\* shape with a product beyond MaxVa has no count.
Product(shape) == FoldLeft(LAMBDA x, y : x * y, 1, shape)

HasElementCount(shape) ==
  /\ shape # <<>>
  /\ \A i \in DOMAIN shape : shape[i] # 0
  /\ \A i \in DOMAIN shape : Product(SubSeq(shape, 1, i)) <= MaxVa

tensor_element_count(t) == Product(t.shape)

dtype_size_bytes(t) == ElementBytes[t.dtype]

tensor_required_bytes(t) == tensor_element_count(t) * dtype_size_bytes(t)

\* Row-major: the stride of a dimension is the product of the later ones.
has_contiguous_strides(t) ==
  \/ t.strides = <<>>
  \/ /\ Len(t.strides) = Len(t.shape)
     /\ \A i \in DOMAIN t.shape :
          t.strides[i] = Product(SubSeq(t.shape, i + 1, Len(t.shape)))

\* The first address after the tensor; unlike the registry's inclusive end it
\* must itself be an address.
TensorEnd(t) == t.base + tensor_required_bytes(t)

AcceptsTensor(tensors, t) ==
  /\ t.base # 0
  /\ has_contiguous_strides(t)
  /\ HasElementCount(t.shape)
  /\ tensor_required_bytes(t) <= MaxVa
  /\ tensor_required_bytes(t) <= t.size
  /\ TensorEnd(t) <= MaxVa
  /\ \A i \in DOMAIN tensors :
       /\ tensors[i].name # t.name
       /\ \/ TensorEnd(tensors[i]) <= t.base
          \/ TensorEnd(t) <= tensors[i].base

add_tensor(tensors, t) ==
  IF AcceptsTensor(tensors, t) THEN {Append(tensors, t)} ELSE {}

\* Mutant: the bit is counted from the start of the tensor.
BitOfTensor(t, element, bit) ==
  [tensor |-> t.name, element |-> element, element_bit |-> bit,
   byte_offset |-> element + (bit \div 8), bit_in_byte |-> bit % 8,
   va |-> t.base + element + (bit \div 8)]

ForwardAddress(t, element, bit) ==
  LET byte_offset == element * dtype_size_bytes(t) + (bit \div 8) IN
  [tensor |-> t.name, element |-> element, element_bit |-> bit,
   byte_offset |-> byte_offset, bit_in_byte |-> bit % 8,
   va |-> t.base + byte_offset]

ReverseAddress(t, va, bit_in_byte) ==
  LET byte_offset == va - t.base IN
  [tensor |-> t.name,
   element |-> byte_offset \div dtype_size_bytes(t),
   element_bit |-> (byte_offset % dtype_size_bytes(t)) * 8 + bit_in_byte,
   byte_offset |-> byte_offset, bit_in_byte |-> bit_in_byte, va |-> va]

tensor_bit_to_gpu_va(tensors, name, element, bit) ==
  {ForwardAddress(t, element, bit) : t \in
     {u \in ToSet(tensors) : /\ u.name = name
                             /\ element < tensor_element_count(u)
                             /\ bit < dtype_size_bytes(u) * 8}}

HoldsAddress(t, va) == t.base <= va /\ va < TensorEnd(t)

gpu_va_to_tensor_bit(tensors, va, bit_in_byte) ==
  {ReverseAddress(t, va, bit_in_byte) : t \in
     {u \in ToSet(tensors) : HoldsAddress(u, va) /\ bit_in_byte < 8}}
=============================================================================
